---- MODULE Spec2Model ----
(***************************************************************************)
(* A model of the n8n workflow catalogue: the node analysis of            *)
(* workflow_db.py (analyze_nodes, analyze_workflow_file), the incremental  *)
(* indexing pass (index_all_workflows) over the SQLite store with its FTS  *)
(* triggers, the search (search_workflows), the cleanup script and the     *)
(* re-index endpoint of api_server.py.                                     *)
(***************************************************************************)
EXTENDS Integers, Sequences, FiniteSets, TLC

(***************************************************************************)
(* Python strings.  TLC evaluates Len, SubSeq and \o on strings, so the    *)
(* str methods the code uses are written out on real strings.              *)
(***************************************************************************)
UpperLetters == "ABCDEFGHIJKLMNOPQRSTUVWXYZ"

LowerLetters == "abcdefghijklmnopqrstuvwxyz"

CharAt(s, i) == SubSeq(s, i, i)

IsUpperChar(c) == \E i \in 1..Len(UpperLetters) : CharAt(UpperLetters, i) = c

IsLowerChar(c) == \E i \in 1..Len(LowerLetters) : CharAt(LowerLetters, i) = c

IsCased(c) == IsUpperChar(c) \/ IsLowerChar(c)

LowerChar(c) ==
    IF IsUpperChar(c)
    THEN CharAt(LowerLetters, CHOOSE i \in 1..Len(UpperLetters) : CharAt(UpperLetters, i) = c)
    ELSE c

UpperChar(c) ==
    IF IsLowerChar(c)
    THEN CharAt(UpperLetters, CHOOSE i \in 1..Len(LowerLetters) : CharAt(LowerLetters, i) = c)
    ELSE c

\* str.lower()
RECURSIVE lower(_)
lower(s) ==
    IF Len(s) = 0 THEN "" ELSE LowerChar(CharAt(s, 1)) \o lower(SubSeq(s, 2, Len(s)))

\* sub in s
Contains(sub, s) ==
    \E i \in 1..(Len(s) - Len(sub) + 1) : SubSeq(s, i, i + Len(sub) - 1) = sub

\* s.startswith(pre)
StartsWith(s, pre) == Len(s) >= Len(pre) /\ SubSeq(s, 1, Len(pre)) = pre

\* s.replace(sub, ''): every non-overlapping occurrence, left to right
RECURSIVE Remove(_, _)
Remove(s, sub) ==
    IF Len(s) = 0 \/ Len(sub) = 0 THEN s
    ELSE IF StartsWith(s, sub) THEN Remove(SubSeq(s, Len(sub) + 1, Len(s)), sub)
    ELSE CharAt(s, 1) \o Remove(SubSeq(s, 2, Len(s)), sub)

\* s.title(): a cased character is upper-cased after an uncased one and
\* lower-cased after a cased one
RECURSIVE TitleFrom(_, _)
TitleFrom(s, prevCased) ==
    IF Len(s) = 0 THEN ""
    ELSE LET c == CharAt(s, 1) IN
         (IF IsCased(c) THEN (IF prevCased THEN LowerChar(c) ELSE UpperChar(c)) ELSE c)
             \o TitleFrom(SubSeq(s, 2, Len(s)), IsCased(c))

title(s) == TitleFrom(s, FALSE)

\* s.split(sep) for a one-character separator
RECURSIVE Split(_, _)
Split(s, sep) ==
    IF ~Contains(sep, s) THEN <<s>>
    ELSE LET i == CHOOSE i \in 1..Len(s) :
                      CharAt(s, i) = sep /\ \A j \in 1..(i - 1) : CharAt(s, j) # sep
         IN <<SubSeq(s, 1, i - 1)>> \o Split(SubSeq(s, i + 1, Len(s)), sep)

SplitDot(s) == Split(s, ".")

Digits == "0123456789"

IsDigitChar(c) == \E i \in 1..Len(Digits) : CharAt(Digits, i) = c

\* s.isdigit()
isdigit(s) == Len(s) > 0 /\ \A i \in 1..Len(s) : IsDigitChar(CharAt(s, i))

\* s.capitalize()
capitalize(s) ==
    IF Len(s) = 0 THEN "" ELSE UpperChar(CharAt(s, 1)) \o lower(SubSeq(s, 2, Len(s)))

\* s.strip() of blanks
RECURSIVE strip(_)
strip(s) ==
    IF Len(s) = 0 THEN ""
    ELSE IF CharAt(s, 1) = " " THEN strip(SubSeq(s, 2, Len(s)))
    ELSE IF CharAt(s, Len(s)) = " " THEN strip(SubSeq(s, 1, Len(s) - 1))
    ELSE s

\* ' '.join(parts)
RECURSIVE JoinSpace(_)
JoinSpace(parts) ==
    IF Len(parts) = 0 THEN ""
    ELSE IF Len(parts) = 1 THEN parts[1]
    ELSE parts[1] \o " " \o JoinSpace(Tail(parts))

\* Python's None among strings
NONE == "<None>"

(***************************************************************************)
(* analyze_nodes: the service table in its dict order, the trigger scan    *)
(* and the integration extraction.                                         *)
(***************************************************************************)
service_mappings == <<
    <<"telegram", "Telegram">>,
    <<"telegramTrigger", "Telegram">>,
    <<"discord", "Discord">>,
    <<"slack", "Slack">>,
    <<"whatsapp", "WhatsApp">>,
    <<"mattermost", "Mattermost">>,
    <<"teams", "Microsoft Teams">>,
    <<"rocketchat", "Rocket.Chat">>,
    <<"gmail", "Gmail">>,
    <<"mailjet", "Mailjet">>,
    <<"emailreadimap", "Email (IMAP)">>,
    <<"emailsendsmt", "Email (SMTP)">>,
    <<"outlook", "Outlook">>,
    <<"googledrive", "Google Drive">>,
    <<"googledocs", "Google Docs">>,
    <<"googlesheets", "Google Sheets">>,
    <<"dropbox", "Dropbox">>,
    <<"onedrive", "OneDrive">>,
    <<"box", "Box">>,
    <<"postgres", "PostgreSQL">>,
    <<"mysql", "MySQL">>,
    <<"mongodb", "MongoDB">>,
    <<"redis", "Redis">>,
    <<"airtable", "Airtable">>,
    <<"notion", "Notion">>,
    <<"jira", "Jira">>,
    <<"github", "GitHub">>,
    <<"gitlab", "GitLab">>,
    <<"trello", "Trello">>,
    <<"asana", "Asana">>,
    <<"mondaycom", "Monday.com">>,
    <<"openai", "OpenAI">>,
    <<"anthropic", "Anthropic">>,
    <<"huggingface", "Hugging Face">>,
    <<"linkedin", "LinkedIn">>,
    <<"twitter", "Twitter/X">>,
    <<"facebook", "Facebook">>,
    <<"instagram", "Instagram">>,
    <<"shopify", "Shopify">>,
    <<"stripe", "Stripe">>,
    <<"paypal", "PayPal">>,
    <<"googleanalytics", "Google Analytics">>,
    <<"mixpanel", "Mixpanel">>,
    <<"googlecalendar", "Google Calendar">>,
    <<"googletasks", "Google Tasks">>,
    <<"cal", "Cal.com">>,
    <<"calendly", "Calendly">>,
    <<"typeform", "Typeform">>,
    <<"googleforms", "Google Forms">>,
    <<"form", "Form Trigger">>,
    <<"webhook", "Webhook">>,
    <<"httpRequest", "HTTP Request">>,
    <<"graphql", "GraphQL">>,
    <<"sse", "Server-Sent Events">>,
    <<"set", NONE>>,
    <<"function", NONE>>,
    <<"code", NONE>>,
    <<"if", NONE>>,
    <<"switch", NONE>>,
    <<"merge", NONE>>,
    <<"split", NONE>>,
    <<"stickynote", NONE>>,
    <<"stickyNote", NONE>>,
    <<"wait", NONE>>,
    <<"schedule", NONE>>,
    <<"cron", NONE>>,
    <<"manual", NONE>>,
    <<"stopanderror", NONE>>,
    <<"noop", NONE>>,
    <<"noOp", NONE>>,
    <<"error", NONE>>,
    <<"limit", NONE>>,
    <<"aggregate", NONE>>,
    <<"summarize", NONE>>,
    <<"filter", NONE>>,
    <<"sort", NONE>>,
    <<"removeDuplicates", NONE>>,
    <<"dateTime", NONE>>,
    <<"extractFromFile", NONE>>,
    <<"convertToFile", NONE>>,
    <<"readBinaryFile", NONE>>,
    <<"readBinaryFiles", NONE>>,
    <<"executionData", NONE>>,
    <<"executeWorkflow", NONE>>,
    <<"executeCommand", NONE>>,
    <<"respondToWebhook", NONE>>
>>

HasMapping(key) == \E i \in 1..Len(service_mappings) : service_mappings[i][1] = key

\* service_mappings.get(key, default)
MappingGet(key, default) ==
    IF HasMapping(key)
    THEN service_mappings[CHOOSE i \in 1..Len(service_mappings) : service_mappings[i][1] = key][2]
    ELSE default

\* One pass of the loop body's trigger test: the classification after this
\* node, given the classification before it.
TriggerStep(trigger_type, node) ==
    LET node_type == lower(node.type)
        node_name == lower(node.name)
    IN  IF Contains("webhook", node_type) \/ Contains("webhook", node_name)
            THEN "Webhook"
        ELSE IF Contains("cron", node_type) \/ Contains("schedule", node_type)
            THEN "Scheduled"
        ELSE IF Contains("trigger", node_type) /\ trigger_type = "Manual"
            THEN (IF ~Contains("manual", node_type) THEN "Webhook" ELSE trigger_type)
        ELSE trigger_type

\* The trigger classification the loop leaves behind, before the Complex
\* override: a left-to-right scan starting from 'Manual'.
RECURSIVE TriggerScanFrom(_, _, _)
TriggerScanFrom(nodes, i, trigger_type) ==
    IF i > Len(nodes) THEN trigger_type
    ELSE TriggerScanFrom(nodes, i + 1, TriggerStep(trigger_type, nodes[i]))

TriggerScan(nodes) == TriggerScanFrom(nodes, 1, "Manual")

\* raw_service -> service_mappings.get(raw_service, raw_service.title() or None)
MappedService(raw_service) ==
    MappingGet(raw_service, IF raw_service # "" THEN title(raw_service) ELSE NONE)

\* The custom-node branch: the first dot-separated part naming a known service.
RECURSIVE CustomService(_, _)
CustomService(parts, i) ==
    IF i > Len(parts) THEN NONE
    ELSE IF Contains("youtube", parts[i]) THEN "YouTube"
    ELSE IF Contains("telegram", parts[i]) THEN "Telegram"
    ELSE IF Contains("discord", parts[i]) THEN "Discord"
    ELSE CustomService(parts, i + 1)

ServiceFromType(node_type) ==
    IF StartsWith(node_type, "n8n-nodes-base.")
        THEN MappedService(Remove(lower(Remove(node_type, "n8n-nodes-base.")), "trigger"))
    ELSE IF StartsWith(node_type, "@n8n/")
        THEN LET parts == SplitDot(node_type)
                 last == IF Contains(".", node_type) THEN lower(parts[Len(parts)])
                         ELSE lower(node_type)
             IN  MappedService(Remove(last, "trigger"))
    ELSE IF Contains("-", node_type)
        THEN CustomService(SplitDot(lower(node_type)), 1)
    ELSE NONE

Truthy(v) == v # NONE /\ v # ""

\* The scan of the table for a key occurring in the (lower-cased) node name.
NameHintIndex(node_name) ==
    {i \in 1..Len(service_mappings) :
        Contains(service_mappings[i][1], node_name) /\ Truthy(service_mappings[i][2])}

ServiceName(node) ==
    LET hints == NameHintIndex(lower(node.name))
    IN  IF hints # {}
        THEN service_mappings[CHOOSE i \in hints : \A j \in hints : i <= j][2]
        ELSE ServiceFromType(node.type)

NodeIntegrations(nodes) ==
    {s \in {ServiceName(nodes[i]) : i \in 1..Len(nodes)} : Truthy(s) /\ s # "None"}

\* The override taken from 10 nodes and 3 integrations on
analyze_nodes_inclusive(nodes) ==
    LET integrations == NodeIntegrations(nodes)
    IN  [trigger_type |-> IF Len(nodes) >= 10 /\ Cardinality(integrations) >= 3
                          THEN "Complex" ELSE TriggerScan(nodes),
         integrations |-> integrations]

analyze_nodes(nodes) ==
    LET integrations == NodeIntegrations(nodes)
    IN  [trigger_type |-> IF Len(nodes) > 10 /\ Cardinality(integrations) > 3
                          THEN "Complex" ELSE TriggerScan(nodes),
         integrations |-> integrations]

(***************************************************************************)
(* analyze_workflow_file: the name, the complexity tier and the node       *)
(* analysis of one parsed document.                                        *)
(***************************************************************************)
ReadablePart(part) ==
    LET w == lower(part)
    IN  IF w = "http" THEN "HTTP"
        ELSE IF w = "api" THEN "API"
        ELSE IF w = "webhook" THEN "Webhook"
        ELSE IF w = "automation" THEN "Automation"
        ELSE IF w = "automate" THEN "Automate"
        ELSE IF w = "scheduled" THEN "Scheduled"
        ELSE IF w = "triggered" THEN "Triggered"
        ELSE IF w = "manual" THEN "Manual"
        ELSE capitalize(part)

format_workflow_name(filename) ==
    LET all == Split(Remove(filename, ".json"), "_")
        parts == IF Len(all) > 1 /\ isdigit(all[1]) THEN Tail(all) ELSE all
    IN  JoinSpace([i \in 1..Len(parts) |-> ReadablePart(parts[i])])

WorkflowName(filename, json_name_raw) ==
    LET json_name == strip(json_name_raw)
    IN  IF json_name # "" /\ json_name # Remove(filename, ".json")
           /\ ~StartsWith(json_name, "My workflow")
        THEN json_name
        ELSE format_workflow_name(filename)

\* The tiers cut with < in place of <=
ComplexityStrict(node_count) ==
    IF node_count < 5 THEN "low"
    ELSE IF node_count < 15 THEN "medium"
    ELSE "high"

Complexity(node_count) ==
    IF node_count <= 5 THEN "low"
    ELSE IF node_count <= 15 THEN "medium"
    ELSE "high"

(***************************************************************************)
(* The corpus directory: file names and the raw contents a file may hold.  *)
(***************************************************************************)
NumFiles == 2

NumContents == 3

FileNames == <<"0001_webhook_sync.json", "report.json", "notes.json">>

Files == {FileNames[i] : i \in 1..NumFiles}

\* Raw bytes of a file, named by a tag: two well-formed workflow documents,
\* a truncated document and a JSON array.
ContentPool == <<"A", "B", "{", "[]">>

Contents == {ContentPool[i] : i \in 1..NumContents}

Absent == "<absent>"

Node(t, n) == [type |-> t, name |-> n]

\* json.load of the raw bytes: the parsed object of a well-formed document.
Document(bytes) ==
    IF bytes = "A"
    THEN [name |-> "", active |-> TRUE,
          nodes |-> <<Node("n8n-nodes-base.webhook", "Hook"),
                      Node("n8n-nodes-base.set", "Set")>>]
    ELSE [name |-> "Daily Report ", active |-> FALSE,
          nodes |-> <<Node("n8n-nodes-base.cron", "Cron"),
                      Node("n8n-nodes-base.if", "If"),
                      Node("n8n-nodes-base.set", "Set"),
                      Node("n8n-nodes-base.merge", "Merge"),
                      Node("n8n-nodes-base.noOp", "Nothing"),
                      Node("n8n-nodes-base.slack", "Slack")>>]

\* json.load raises JSONDecodeError
Malformed(bytes) == bytes = "{"

\* json.load returns a list, on which data.get raises AttributeError
NotAnObject(bytes) == bytes = "[]"

\* hashlib.md5 over the raw bytes, taken as collision-free
get_file_hash(bytes) == "md5:" \o bytes

\* list(integrations): the elements of the set in some order
Listings(S) ==
    {s \in [1..Cardinality(S) -> S] : \A i, j \in 1..Cardinality(S) : i # j => s[i] # s[j]}

TriggerDescription(trigger_type) ==
    IF trigger_type = "Webhook" THEN "Webhook-triggered automation that"
    ELSE IF trigger_type = "Scheduled" THEN "Scheduled automation that"
    ELSE IF trigger_type = "Complex" THEN "Complex multi-step automation that"
    ELSE "Manual workflow that"

RECURSIVE JoinComma(_)
JoinComma(parts) ==
    IF Len(parts) = 0 THEN ""
    ELSE IF Len(parts) = 1 THEN parts[1]
    ELSE parts[1] \o ", " \o JoinComma(Tail(parts))

ServicesPhrase(services) ==
    LET main_services == SubSeq(services, 1, IF Len(services) < 3 THEN Len(services) ELSE 3)
    IN  IF Len(main_services) = 0 THEN ""
        ELSE IF Len(main_services) = 1 THEN " integrates with " \o main_services[1]
        ELSE IF Len(main_services) = 2
        THEN " connects " \o main_services[1] \o " and " \o main_services[2]
        ELSE " orchestrates " \o JoinComma(SubSeq(main_services, 1, 2))
                 \o ", and " \o main_services[3]

PurposeHint(name) ==
    LET name_lower == lower(name)
    IN  IF Contains("create", name_lower) THEN " to create new records"
        ELSE IF Contains("update", name_lower) THEN " to update existing data"
        ELSE IF Contains("sync", name_lower) THEN " to synchronize data"
        ELSE IF Contains("notification", name_lower) \/ Contains("alert", name_lower)
        THEN " for notifications and alerts"
        ELSE IF Contains("backup", name_lower) THEN " for data backup operations"
        ELSE IF Contains("monitor", name_lower) THEN " for monitoring and reporting"
        ELSE " for data processing"

\* `services` is list(integrations), in the order the set iterates.
generate_description(name, node_count, trigger_type, services) ==
    TriggerDescription(trigger_type) \o ServicesPhrase(services) \o PurposeHint(name)
        \o ". Uses " \o ToString(node_count) \o " nodes"
        \o (IF Len(services) > 3
            THEN " and integrates with " \o ToString(Len(services)) \o " services"
            ELSE "")
        \o "."

\* The dict analyze_workflow_file builds from the parsed document: every key
\* but the hash, which is taken from the file afterwards.  The documents of
\* the corpus carry no tags.
AnalyzeDocument(filename, data, services) ==
    LET doc == Document(data)
        an == analyze_nodes(doc.nodes)
        name == WorkflowName(filename, doc.name)
    IN  [filename |-> filename,
         name |-> name,
         active |-> doc.active,
         description |-> generate_description(name, Len(doc.nodes), an.trigger_type, services),
         trigger_type |-> an.trigger_type,
         complexity |-> Complexity(Len(doc.nodes)),
         node_count |-> Len(doc.nodes),
         integrations |-> an.integrations]

WellFormed == {bytes \in Contents : ~Malformed(bytes) /\ ~NotAnObject(bytes)}

\* The services of each well-formed document, tabulated.
ServicesTable == {<<data, analyze_nodes(Document(data).nodes).integrations>> : data \in WellFormed}

\* AnalyzeDocument, tabulated over the corpus and the orders in which the
\* set of integrations may be listed.
AnalysisTable ==
    UNION {{<<f, t[1], AnalyzeDocument(f, t[1], services)>> : services \in Listings(t[2])} :
             f \in Files, t \in ServicesTable}

Analyses(filename, data) ==
    {t[3] : t \in {x \in AnalysisTable : x[1] = filename /\ x[2] = data}}

\* The dicts analyze_workflow_file may return for a document parsed from
\* `data` when the file holds `bytes` at the time it is hashed.
analyze_workflow_file(filename, data, bytes) ==
    {[filename |-> a.filename,
      name |-> a.name,
      active |-> a.active,
      description |-> a.description,
      trigger_type |-> a.trigger_type,
      complexity |-> a.complexity,
      node_count |-> a.node_count,
      integrations |-> a.integrations,
      file_hash |-> get_file_hash(bytes)] : a \in Analyses(filename, data)}

(***************************************************************************)
(* The SQLite store: the workflows table, the external-content FTS index   *)
(* workflows_fts with its triggers, and the AUTOINCREMENT sequence.        *)
(***************************************************************************)
EmptyDb == [rows |-> {}, fts |-> {}, seq |-> 0]

AlphaNum(c) == IsCased(c) \/ IsDigitChar(c)

\* The FTS5 default tokenizer: maximal alphanumeric runs, case-folded.
RECURSIVE TokensFrom(_, _)
TokensFrom(s, cur) ==
    IF Len(s) = 0 THEN (IF cur = "" THEN {} ELSE {cur})
    ELSE LET c == CharAt(s, 1)
             rest == SubSeq(s, 2, Len(s))
         IN  IF AlphaNum(c) THEN TokensFrom(rest, cur \o LowerChar(c))
             ELSE (IF cur = "" THEN {} ELSE {cur}) \cup TokensFrom(rest, "")

Tokens(s) == TokensFrom(s, "")

\* The terms the index holds for the columns (filename, name, description,
\* integrations, tags) of one row; the tags column is the text "[]".
Terms(filename, name, description, integrations) ==
    Tokens(filename) \cup Tokens(name) \cup Tokens(description)
        \cup UNION {Tokens(i) : i \in integrations}

\* Terms, tabulated over the rows the corpus can produce.
TermsTable ==
    {<<t[3], Terms(t[3].filename, t[3].name, t[3].description, t[3].integrations)>> :
        t \in AnalysisTable}

TermsOfRow(row) ==
    (CHOOSE t \in TermsTable : /\ t[1].filename = row.filename
                               /\ t[1].name = row.name
                               /\ t[1].description = row.description
                               /\ t[1].integrations = row.integrations)[2]

FtsEntry(row) == [rowid |-> row.id, terms |-> TermsOfRow(row)]

\* Trigger workflows_ai: AFTER INSERT, index the new row.
workflows_ai(fts, new) == fts \cup {FtsEntry(new)}

\* Trigger workflows_ad: AFTER DELETE, remove the old row's entry.
workflows_ad(fts, old) == fts \ {FtsEntry(old)}

\* PRAGMA recursive_triggers is left at SQLite's default (off): the rows a
\* REPLACE removes to satisfy UNIQUE(filename) fire no delete trigger.
recursive_triggers == FALSE

RECURSIVE FireDeletes(_, _)
FireDeletes(fts, olds) ==
    IF olds = {} THEN fts
    ELSE LET o == CHOOSE o \in olds : TRUE
         IN  FireDeletes(workflows_ad(fts, o), olds \ {o})

\* REPLACE conflict resolution on UNIQUE(filename): the rows to remove.
\* A plain INSERT into a table without the UNIQUE constraint
ConflictingNone(rows, filename) == {}

Conflicting(rows, filename) == {r \in rows : r.filename = filename}

\* A store that empties the table before it inserts
InsertAfterDeleteAll(d, w, timestamp) ==
    LET new == [id |-> d.seq + 1,
                filename |-> w.filename,
                name |-> w.name,
                active |-> w.active,
                description |-> w.description,
                trigger_type |-> w.trigger_type,
                complexity |-> w.complexity,
                node_count |-> w.node_count,
                integrations |-> w.integrations,
                file_hash |-> w.file_hash,
                analyzed_at |-> timestamp]
    IN  [rows |-> {new},
         fts |-> workflows_ai(d.fts, new),
         seq |-> d.seq + 1]

\* INSERT OR REPLACE INTO workflows (...) VALUES (..., CURRENT_TIMESTAMP)

InsertOrReplace(d, w, timestamp) ==
    LET olds == Conflicting(d.rows, w.filename)
        new == [id |-> d.seq + 1,
                filename |-> w.filename,
                name |-> w.name,
                active |-> w.active,
                description |-> w.description,
                trigger_type |-> w.trigger_type,
                complexity |-> w.complexity,
                node_count |-> w.node_count,
                integrations |-> w.integrations,
                file_hash |-> w.file_hash,
                analyzed_at |-> timestamp]
        kept == IF recursive_triggers THEN FireDeletes(d.fts, olds) ELSE d.fts
    IN  [rows |-> (d.rows \ olds) \cup {new},
         fts |-> workflows_ai(kept, new),
         seq |-> d.seq + 1]

\* DELETE FROM workflows WHERE filename IN (names), with trigger
\* workflows_ad, then DELETE FROM workflows_fts WHERE filename IN (names),
\* which reads the filename of an entry from its content row.
DeleteOrphaned(d, names) ==
    LET gone == {r \in d.rows : r.filename \in names}
        rows1 == d.rows \ gone
        fts1 == FireDeletes(d.fts, gone)
        fts2 == {e \in fts1 : ~\E r \in rows1 : r.id = e.rowid /\ r.filename \in names}
    IN  [rows |-> rows1, fts |-> fts2, seq |-> d.seq]

(***************************************************************************)
(* State.                                                                  *)
(*   files   the bytes each file of the workflows directory holds          *)
(*   now     the clock CURRENT_TIMESTAMP reads (whole seconds)             *)
(*   db      the committed content of workflows.db                         *)
(*   lock    the connections holding SQLite's write lock (none or one)     *)
(*   pass    the indexing pass each worker thread is running               *)
(*   search  the search_workflows call in progress or last returned        *)
(*   search  the call of search_workflows under way: its parameters, the   *)
(*           total of the COUNT statement, the page, and the committed     *)
(*           state each of the two statements read (at_count, at_page)     *)
(*   hist    counters and the record of the last completed pass            *)
(* A pass also keeps an account of what it did (analyzed, wrote, replaced) *)
(* and of what happened around it (changed: the files that differ from     *)
(* what the previous pass left; quiet: no file was edited while it ran;    *)
(* second: a pass before it ran to its end undisturbed).                   *)
(*   nodes, verdict   the input and the result of a lone analyze_nodes     *)
(***************************************************************************)
VARIABLES files, now, db, lock, pass, search, hist, given, verdict

vars == <<files, now, db, lock, pass, search, hist, given, verdict>>

MaxEdits == 1

MaxPasses == 2

MaxTime == 1

NumWorkers == 2

Slots == 1..NumWorkers

ZeroStats == [processed |-> 0, skipped |-> 0, errors |-> 0]

\* A worker with no pass: index_all_workflows has not been called on it.
IdlePass ==
    [pc |-> "idle", force |-> FALSE, todo |-> {}, cur |-> "", data |-> "",
     stats |-> ZeroStats, inTxn |-> FALSE, pinned |-> FALSE, view |-> EmptyDb,
     analyzed |-> {}, wrote |-> {}, replaced |-> {}, changed |-> {}, quiet |-> TRUE,
     second |-> FALSE, dir |-> "found", seen |-> [f \in Files |-> Absent]]

Running(p) == pass[p].pc \notin {"idle", "done"}

\* What a statement of pass p's connection reads: its own uncommitted
\* writes when it holds the write lock, the snapshot its open transaction
\* pinned, else the last committed state (WAL).
ReadView(p) ==
    IF p \in lock \/ pass[p].pinned THEN pass[p].view ELSE db

\* A SELECT inside an open transaction that holds no lock pins the snapshot.
AfterSelect(p, rec) ==
    IF rec.inTxn /\ ~rec.pinned /\ p \notin lock
    THEN [rec EXCEPT !.pinned = TRUE, !.view = db]
    ELSE rec

\* A skipped file left out of the counts
BumpUnlessSkipped(rec, counter) ==
    IF counter = "skipped" THEN rec ELSE [rec EXCEPT !.stats[counter] = @ + 1]

Bump(rec, counter) == [rec EXCEPT !.stats[counter] = @ + 1]

\* A failure that ends the loop: break in place of continue
FailedBreak(rec) == [Bump(rec, "errors") EXCEPT !.pc = "next", !.todo = {}]

\* stats['errors'] += 1; continue: after None from analyze_workflow_file
\* and in the except clause of the loop body.
Failed(rec) == [Bump(rec, "errors") EXCEPT !.pc = "next"]

\* A skip decided on the filename alone
UnchangedByName(force_reindex, rows, filename, current_hash) ==
    /\ ~force_reindex
    /\ \E row \in rows : row.filename = filename

\* The test of lines 456-465: the file is skipped when a row of that
\* filename carries the hash just computed.
Unchanged(force_reindex, rows, filename, current_hash) ==
    /\ ~force_reindex
    /\ \E row \in rows : row.filename = filename /\ row.file_hash = current_hash

Init ==
    /\ files \in [Files -> Contents \cup {Absent}]
    /\ now = 0
    /\ db = EmptyDb
    /\ lock = {}
    /\ pass = [p \in Slots |-> IdlePass]
    /\ search = [pc |-> "idle", calls |-> 0]
    /\ hist = [passNo |-> 0, edits |-> 0, base |-> files, prevQuiet |-> FALSE]
    /\ given = <<>>
    /\ verdict = [done |-> FALSE]

(***************************************************************************)
(* index_all_workflows, one step per file access or statement.             *)
(***************************************************************************)
\* What a finished pass leaves: its return value and the account of what it
\* did; the connection is closed.
Finished(rec) ==
    [IdlePass EXCEPT !.pc = "done", !.force = rec.force, !.stats = rec.stats,
                     !.analyzed = rec.analyzed, !.wrote = rec.wrote,
                     !.replaced = rec.replaced,
                     !.changed = rec.changed, !.quiet = rec.quiet,
                     !.second = rec.second, !.dir = rec.dir,
                     !.seen = rec.seen]

PassEnded(rec) ==
    hist' = [hist EXCEPT !.base = files, !.prevQuiet = rec.quiet]

\* os.path.exists(workflows_dir): a directory that holds a file exists; one
\* that holds none may be empty or may itself be missing.
DirStates(json_files) == IF json_files = {} THEN {"missing", "empty"} ELSE {"found"}

\* The call: a missing directory returns zero counts at once; else the
\* directory is globbed, and with no *.json file the pass returns zero counts
\* too.  `alone` is the command line, where one pass runs at a time; the
\* API's background tasks start a pass whatever else runs.
StartPass(p, force_reindex, alone) ==
    /\ ~Running(p)
    /\ alone => \A q \in Slots : ~Running(q)
    /\ hist.passNo < MaxPasses
    /\ \E exists \in DirStates({f \in Files : files[f] # Absent}) :
       LET json_files == IF exists = "missing" THEN {}
                         ELSE {f \in Files : files[f] # Absent}
           rec == [IdlePass EXCEPT !.force = force_reindex,
                                   !.todo = json_files,
                                   !.changed = {f \in Files : files[f] # hist.base[f]},
                                   !.second = hist.prevQuiet,
                                   !.dir = exists,
                                   !.seen = files]
       IN  IF exists = "missing" \/ json_files = {}
           THEN /\ pass' = [pass EXCEPT ![p] = Finished(rec)]
                /\ hist' = [hist EXCEPT !.passNo = @ + 1, !.base = files,
                                        !.prevQuiet = TRUE]
           ELSE /\ pass' = [pass EXCEPT ![p] = [rec EXCEPT !.pc = "next"]]
                /\ hist' = [hist EXCEPT !.passNo = @ + 1]
    /\ UNCHANGED <<files, now, db, lock, search, given, verdict>>

\* The head of the loop body for the next file of the glob: unless forced,
\* hash the file, look its row up and skip it when the hashes agree.
PassVisit(p) ==
    /\ pass[p].pc = "next"
    /\ \E f \in pass[p].todo :
         LET rec == [pass[p] EXCEPT !.todo = @ \ {f}, !.cur = f]
         IN  IF rec.force
             THEN pass' = [pass EXCEPT ![p] = [rec EXCEPT !.pc = "analyze"]]
             ELSE IF files[f] = Absent
             THEN pass' = [pass EXCEPT ![p] = Failed(rec)]
             ELSE LET sel == AfterSelect(p, rec)
                  IN  IF Unchanged(rec.force, ReadView(p).rows, f, get_file_hash(files[f]))
                      THEN pass' = [pass EXCEPT ![p] = Bump(sel, "skipped")]
                      ELSE pass' = [pass EXCEPT ![p] = [sel EXCEPT !.pc = "analyze"]]
    /\ UNCHANGED <<files, now, db, lock, search, hist, given, verdict>>

\* analyze_workflow_file up to json.load: None for a document that does not
\* decode, an exception for a file that is gone or is not a JSON object.
PassAnalyze(p) ==
    /\ pass[p].pc = "analyze"
    /\ LET f == pass[p].cur
           rec == [pass[p] EXCEPT !.analyzed = @ \cup {f}]
       IN  IF files[f] = Absent \/ Malformed(files[f]) \/ NotAnObject(files[f])
           THEN pass' = [pass EXCEPT ![p] = Failed(rec)]
           ELSE pass' = [pass EXCEPT ![p] = [rec EXCEPT !.pc = "store", !.data = files[f]]]
    /\ UNCHANGED <<files, now, db, lock, search, hist, given, verdict>>

\* The rest of analyze_workflow_file (the file is sized and hashed again)
\* and the INSERT OR REPLACE.  The statement needs the write lock: it fails
\* with "database is locked" when another connection keeps it past the busy
\* timeout, or when the transaction's snapshot is no longer the latest.
PassStore(p) ==
    /\ pass[p].pc = "store"
    /\ LET f == pass[p].cur
           rec == [pass[p] EXCEPT !.pc = "next", !.data = ""]
       IN  IF files[f] = Absent
           THEN /\ pass' = [pass EXCEPT ![p] = Failed(rec)]
                /\ lock' = lock
           ELSE \E w \in analyze_workflow_file(f, pass[p].data, files[f]) :
                LET had == IF p \in lock THEN rec.view.rows ELSE db.rows
                    ok == [Bump(rec, "processed") EXCEPT
                              !.inTxn = TRUE, !.pinned = FALSE, !.wrote = @ \cup {f},
                              !.replaced = @ \cup {r.filename : r \in Conflicting(had, f)}]
                IN  IF p \in lock
                    THEN /\ pass' = [pass EXCEPT ![p] =
                                       [ok EXCEPT !.view = InsertOrReplace(rec.view, w, now)]]
                         /\ lock' = lock
                    ELSE IF lock # {} \/ (rec.pinned /\ rec.view # db)
                    THEN /\ pass' = [pass EXCEPT ![p] =
                                       [Failed(rec) EXCEPT !.inTxn = TRUE]]
                         /\ lock' = lock
                    ELSE /\ pass' = [pass EXCEPT ![p] =
                                       [ok EXCEPT !.view = InsertOrReplace(db, w, now)]]
                         /\ lock' = {p}
    /\ UNCHANGED <<files, now, db, search, hist, given, verdict>>

\* conn.commit(), conn.close() and the return of the counts.
PassCommit(p) ==
    /\ pass[p].pc = "next"
    /\ pass[p].todo = {}
    /\ IF p \in lock
       THEN db' = pass[p].view /\ lock' = {}
       ELSE UNCHANGED <<db, lock>>
    /\ pass' = [pass EXCEPT ![p] = Finished(pass[p])]
    /\ PassEnded(pass[p])
    /\ UNCHANGED <<files, now, search, given, verdict>>

(***************************************************************************)
(* The environment: the user edits, creates or removes a workflow file,    *)
(* and time passes.                                                        *)
(***************************************************************************)
EditFile(f, bytes) ==
    /\ hist.edits < MaxEdits
    /\ files[f] # bytes
    /\ files' = [files EXCEPT ![f] = bytes]
    /\ hist' = [hist EXCEPT !.edits = @ + 1]
    /\ pass' = [p \in Slots |->
                  IF Running(p) THEN [pass[p] EXCEPT !.quiet = FALSE] ELSE pass[p]]
    /\ UNCHANGED <<now, db, lock, search, given, verdict>>

Tick ==
    /\ now < MaxTime
    /\ now' = now + 1
    /\ UNCHANGED <<files, db, lock, pass, search, hist, given, verdict>>

(***************************************************************************)
(* cleanup_database.py cleanup, confirmed by the user: the rows whose file *)
(* is gone are deleted in one transaction.  While a pass holds the write   *)
(* lock the DELETE fails and the script rolls back.                        *)
(***************************************************************************)
Orphaned(rows, actual_files) == {r.filename : r \in rows} \ actual_files

cleanup_orphaned_workflows ==
    /\ lock = {}
    /\ LET orphaned == Orphaned(db.rows, {f \in Files : files[f] # Absent})
       IN  /\ orphaned # {}
           /\ db' = DeleteOrphaned(db, orphaned)
    /\ UNCHANGED <<files, now, lock, pass, search, hist, given, verdict>>

(***************************************************************************)
(* search_workflows: the COUNT statement, then the page statement, each an *)
(* autocommit read on the call's own connection.                           *)
(***************************************************************************)
\* The conditions joined with OR
WhereAny(row, params) ==
    \/ ~params.active_only /\ params.trigger_filter = "all" /\ params.complexity_filter = "all"
    \/ params.active_only /\ row.active
    \/ params.trigger_filter # "all" /\ row.trigger_type = params.trigger_filter
    \/ params.complexity_filter # "all" /\ row.complexity = params.complexity_filter

\* The WHERE conditions, joined with AND.
Where(row, params) ==
    /\ params.active_only => row.active
    /\ params.trigger_filter # "all" => row.trigger_type = params.trigger_filter
    /\ params.complexity_filter # "all" => row.complexity = params.complexity_filter

\* workflows_fts MATCH ? for a one-word query
Queries == {"", " ", "webhook"}

\* The terms of each query text, tabulated.
QueryTerms == {<<query, Tokens(query), strip(query) # "">> : query \in Queries}

\* query.strip(), tabulated
HasText(query) == (CHOOSE t \in QueryTerms : t[1] = query)[3]

Match(query, entry) == (CHOOSE t \in QueryTerms : t[1] = query)[2] \subseteq entry.terms

\* The rows of base_query: for a query text, the join of the index entries
\* that match with their rows; else every row.
BaseRows(d, params) ==
    IF HasText(params.query)
    THEN {x \in d.rows \X d.fts :
            x[2].rowid = x[1].id /\ Match(params.query, x[2]) /\ Where(x[1], params)}
    ELSE {x \in d.rows \X {[rowid |-> 0, terms |-> {}]} : Where(x[1], params)}

\* SELECT COUNT(*) FROM (base_query)
CountQuery(d, params) == Cardinality(BaseRows(d, params))

Arrangements(S) ==
    {s \in [1..Cardinality(S) -> S] : \A i, j \in 1..Cardinality(S) : i # j => s[i] # s[j]}

\* The order turned round: ORDER BY w.analyzed_at ASC
OrderedAscending(d, params) ==
    {s \in Arrangements(BaseRows(d, params)) :
        ~HasText(params.query) =>
            \A i, j \in 1..Len(s) : i < j => s[i][1].analyzed_at <= s[j][1].analyzed_at}

\* ORDER BY w.analyzed_at DESC for an empty query; ORDER BY rank otherwise,
\* where the rank (bm25) is left open.  Ties come in any order.
Ordered(d, params) ==
    {s \in Arrangements(BaseRows(d, params)) :
        ~HasText(params.query) =>
            \A i, j \in 1..Len(s) : i < j => s[i][1].analyzed_at >= s[j][1].analyzed_at}

\* LIMIT limit OFFSET offset
Slice(s, limit, offset) ==
    [i \in 1..(IF Len(s) - offset < 0 THEN 0
               ELSE IF Len(s) - offset < limit THEN Len(s) - offset ELSE limit)
        |-> s[offset + i][1]]

\* The rollback journal SQLite uses when the pragma is left out
journal_mode_default == "delete"

\* PRAGMA journal_mode=WAL: a reader never waits for the writer.
journal_mode == "wal"

ReaderWaits == journal_mode # "wal" /\ lock # {}

\* What the statements of a search read: the last committed state.
SearchView == db

\* The filenames whose rows an open write transaction has replaced when a
\* statement of the search runs (kept for the account of the search).
Replacing == UNION {pass[p].replaced : p \in lock}

TriggerFilters == {"all", "Webhook"}

ComplexityFilters == {"all", "medium"}

MaxLimit == 2

MaxOffset == 2

MaxSearches == 1

SearchParams ==
    [query : Queries, trigger_filter : TriggerFilters,
     complexity_filter : ComplexityFilters, active_only : BOOLEAN,
     limit : 1..MaxLimit, offset : 0..MaxOffset]

\* The offset counted from page 0
PageOffsetFromZero(page, per_page) == page * per_page

\* GET /api/workflows: offset = (page - 1) * per_page
PageOffset(page, per_page) == (page - 1) * per_page

\* GET /api/workflows: pages = (total + per_page - 1) // per_page
PageCount(total, per_page) == (total + per_page - 1) \div per_page

SearchCount(params) ==
    /\ search.pc # "counted"
    /\ search.calls < MaxSearches
    /\ ~ReaderWaits
    /\ search' = [pc |-> "counted", calls |-> search.calls + 1, params |-> params,
                  total |-> CountQuery(SearchView, params),
                  at_count |-> SearchView, replacing |-> Replacing]
    /\ UNCHANGED <<files, now, db, lock, pass, hist, given, verdict>>

SearchPage ==
    /\ search.pc = "counted"
    /\ ~ReaderWaits
    /\ \E s \in Ordered(SearchView, search.params) :
         search' = [pc |-> "done", calls |-> search.calls, params |-> search.params,
                    total |-> search.total,
                    at_count |-> search.at_count, at_page |-> SearchView,
                    replacing |-> search.replacing \cup Replacing,
                    pages |-> PageCount(search.total, search.params.limit),
                    page |-> Slice(s, search.params.limit, search.params.offset)]
    /\ UNCHANGED <<files, now, db, lock, pass, hist, given, verdict>>

search_workflows == (\E params \in SearchParams : SearchCount(params)) \/ SearchPage

(***************************************************************************)
(* A lone call of analyze_nodes on a node list, and the same nodes handed  *)
(* over in another order.                                                  *)
(***************************************************************************)
MaxNodes == 3

NodeCatalog ==
    {Node("n8n-nodes-base.webhook", "Hook"),
     Node("n8n-nodes-base.cron", "Cron"),
     Node("n8n-nodes-base.scheduleTrigger", "Every day"),
     Node("n8n-nodes-base.manualTrigger", "Start"),
     Node("n8n-nodes-base.telegramTrigger", "Telegram"),
     Node("n8n-nodes-base.httpRequest", "HTTP Request"),
     Node("n8n-nodes-base.set", "Set")}

NodeLists == UNION {[1..n -> NodeCatalog] : n \in 0..MaxNodes}

NoVerdict == [done |-> FALSE, trigger |-> "", trigger_type |-> "", integrations |-> {},
              earlier |-> ""]

AnalyzeNodes ==
    /\ ~verdict.done
    /\ verdict' = [done |-> TRUE,
                   trigger |-> TriggerScan(given),
                   trigger_type |-> analyze_nodes(given).trigger_type,
                   integrations |-> analyze_nodes(given).integrations,
                   earlier |-> verdict.earlier]
    /\ UNCHANGED <<files, now, db, lock, pass, search, hist, given>>

\* The caller passes the same nodes with two neighbours exchanged.
Reorder(i) ==
    /\ verdict.done
    /\ i \in 1..(Len(given) - 1)
    /\ given[i] # given[i + 1]
    /\ given' = [given EXCEPT ![i] = given[i + 1], ![i + 1] = given[i]]
    /\ verdict' = [NoVerdict EXCEPT !.earlier = verdict.trigger]
    /\ UNCHANGED <<files, now, db, lock, pass, search, hist>>

(***************************************************************************)
(* A lone call of analyze_workflow_file from the node analysis on, over    *)
(* parsed documents of up to eighteen nodes: some service nodes in a row,  *)
(* then one utility node repeated.                                         *)
(***************************************************************************)
MaxPad == 13

ServiceNodes ==
    <<Node("n8n-nodes-base.cron", "Cron"),
      Node("n8n-nodes-base.slack", "Slack"),
      Node("n8n-nodes-base.gmail", "Gmail"),
      Node("n8n-nodes-base.telegram", "Telegram"),
      Node("n8n-nodes-base.github", "GitHub")>>

\* Nodes of the utility kinds, under the editor's name and under names
\* their authors gave them.
UtilityNodes ==
    {Node("n8n-nodes-base.set", "Set"),
     Node("n8n-nodes-base.set", "Slack"),
     Node("n8n-nodes-base.if", "If Telegram"),
     Node("n8n-nodes-base.splitInBatches", "Loop")}

RECURSIVE Repeat(_, _)
Repeat(node, k) == IF k = 0 THEN <<>> ELSE <<node>> \o Repeat(node, k - 1)

\* The three nodes of a webhook relay
RelayNodes ==
    <<Node("n8n-nodes-base.webhookTrigger", "Webhook"),
      Node("n8n-nodes-base.httpRequest", "HTTP Request"),
      Node("n8n-nodes-base.set", "Set")>>

DocumentNodes ==
    {RelayNodes} \cup
    {SubSeq(ServiceNodes, i, j) \o Repeat(u, k) :
        i \in 1..Len(ServiceNodes), j \in 0..Len(ServiceNodes), u \in UtilityNodes, k \in 0..MaxPad}

DocumentNames == {"", "Nightly sync"}

ParsedDocuments == [filename : {FileNames[2]}, name : DocumentNames, nodes : DocumentNodes]

\* The complexity tier of the documentation generator
DocumentationComplexity(node_count) ==
    IF node_count <= 5 THEN "low"
    ELSE IF node_count <= 15 THEN "medium"
    ELSE "high"

\* analyze_nodes, tabulated over the node lists of the documents.
NodesTable == {<<nodes, analyze_nodes(nodes)>> : nodes \in DocumentNodes}

NodesAnalysis(nodes) == (CHOOSE t \in NodesTable : t[1] = nodes)[2]

\* The name of each document, tabulated.
NamesTable ==
    {<<filename, json_name, WorkflowName(filename, json_name)>> :
        filename \in {FileNames[2]}, json_name \in DocumentNames}

NameOf(doc) == (CHOOSE t \in NamesTable : t[1] = doc.filename /\ t[2] = doc.name)[3]

\* The dict analyze_workflow_file builds from a parsed document, from the
\* name on; `services` is list(integrations) in the order the set iterates.
AnalyzeParsed(doc, services) ==
    LET an == NodesAnalysis(doc.nodes)
        name == NameOf(doc)
    IN  [filename |-> doc.filename,
         name |-> name,
         description |-> generate_description(name, Len(doc.nodes), an.trigger_type, services),
         trigger_type |-> an.trigger_type,
         complexity |-> Complexity(Len(doc.nodes)),
         node_count |-> Len(doc.nodes),
         integrations |-> an.integrations]

NoAnalysis == [done |-> FALSE]

AnalyzeFile ==
    /\ ~verdict.done
    /\ \E services \in Listings(NodesAnalysis(given.nodes).integrations) :
         LET w == AnalyzeParsed(given, services)
         IN  verdict' = [done |-> TRUE,
                         workflow |-> w,
                         documented |-> DocumentationComplexity(Len(given.nodes))]
    /\ UNCHANGED <<files, now, db, lock, pass, search, hist, given>>

(***************************************************************************)
(* generate_description alone, called twice with the same workflow name,   *)
(* node count, trigger type and set of integrations, as two runs of the    *)
(* indexer call it.  list(integrations) comes in the order the set         *)
(* iterates, which the hash seed of the run and the insertions decide.     *)
(***************************************************************************)
MaxRuns == 2

DescribedServices == {"Slack", "Gmail", "Telegram", "GitHub"}

DescriptionInputs ==
    [name : {"Report", "Nightly sync"},
     trigger_type : {"Manual", "Webhook", "Scheduled", "Complex"},
     integrations : SUBSET DescribedServices,
     node_count : {1, 12}]

NoDescription == [done |-> FALSE, runs |-> 0, description |-> "", first |-> ""]

Describe ==
    /\ verdict.runs < MaxRuns
    /\ \E services \in Listings(given.integrations) :
         LET desc == generate_description(given.name, given.node_count,
                                          given.trigger_type, services)
         IN  verdict' = [done |-> TRUE,
                         runs |-> verdict.runs + 1,
                         description |-> desc,
                         first |-> IF verdict.runs = 0 THEN desc ELSE verdict.first]
    /\ UNCHANGED <<files, now, db, lock, pass, search, hist, given>>

(***************************************************************************)
(* The step narrative of the documentation generator for a document whose  *)
(* nodes carry no notes: _traverse_workflow from the start node, one step  *)
(* of the model per call, per connection followed and per return.  The     *)
(* connections of a node are its `main` ports flattened, in order: the     *)
(* names of the target nodes.                                              *)
(***************************************************************************)
MaxGraphNodes == 3

MaxOut == 2

GraphNames == <<"a", "b", "c", "d", "e">>

\* A connection may name a node the document does not hold.
Ghost == "ghost"

\* The ids of the nodes: one each, or none at all (node.get('id', '')).
IdSchemes == {"unique", "missing"}

GraphNode(i, scheme) ==
    [id |-> IF scheme = "unique" THEN GraphNames[i] \o "-id" ELSE "",
     name |-> GraphNames[i],
     type |-> IF i = 1 THEN "n8n-nodes-base.webhook" ELSE "n8n-nodes-base.set"]

\* The target names a node may list: up to MaxOut nodes of the document, or
\* the one missing node.
Targets(n) ==
    {<<Ghost>>} \cup UNION {[1..k -> {GraphNames[i] : i \in 1..n}] : k \in 0..MaxOut}

Graphs ==
    UNION {[nodes : {[i \in 1..n |-> GraphNode(i, scheme)] : scheme \in IdSchemes},
            connections : [{GraphNames[i] : i \in 1..n} -> Targets(n)]] : n \in 1..MaxGraphNodes}

\* _find_start_node, its first loop: the first node whose type names a
\* trigger.  The first node of these graphs is a webhook node, so the loop
\* returns and the search among the connection targets is not reached.
find_start_node(nodes) ==
    CHOOSE i \in 1..Len(nodes) :
        /\ \E word \in {"trigger", "webhook", "cron", "schedule", "manual"} :
              Contains(word, lower(nodes[i].type))
        /\ \A j \in 1..(i - 1) :
              ~\E word \in {"trigger", "webhook", "cron", "schedule", "manual"} :
                  Contains(word, lower(nodes[j].type))

\* node_map = {node.get('id', ''): node for node in nodes}, as the sequence
\* of its values: one entry per id in the order the ids first occur, each
\* the last node carrying that id.
RECURSIVE NodeMapFrom(_, _, _)
NodeMapFrom(nodes, i, seenIds) ==
    IF i > Len(nodes) THEN <<>>
    ELSE IF nodes[i].id \in seenIds THEN NodeMapFrom(nodes, i + 1, seenIds)
    ELSE LET last == CHOOSE j \in i..Len(nodes) :
                        /\ nodes[j].id = nodes[i].id
                        /\ \A k \in (j + 1)..Len(nodes) : nodes[k].id # nodes[i].id
         IN  <<last>> \o NodeMapFrom(nodes, i + 1, seenIds \cup {nodes[i].id})

NodeMap(nodes) == NodeMapFrom(nodes, 1, {})

\* The scan of node_map.values() for the first node of that name: its
\* position in the node list, 0 for None.
NextNode(nodes, next_node_name) ==
    LET values == NodeMap(nodes)
        hits == {k \in 1..Len(values) : nodes[values[k]].name = next_node_name}
    IN  IF hits = {} THEN 0 ELSE values[CHOOSE k \in hits : \A m \in hits : k <= m]

\* _generate_step_description, for the node types of these graphs; its last
\* branch returns a sentence for any type, so no node goes without a step.
generate_step_description(node) ==
    IF Contains("webhook", lower(node.type))
        THEN "Receives incoming webhook requests to trigger the workflow"
    ELSE IF Contains("set", lower(node.type))
        THEN "Sets and transforms data values for use in subsequent steps"
    ELSE "Integrates with " \o title(Remove(Remove(Remove(node.type, "n8n-nodes-base."), "Trigger"), "trigger"))
             \o " to process data"

\* The start node of each node list and the sentence of each node, tabulated.
StartTable == {<<nodes, find_start_node(nodes)>> : nodes \in {g.nodes : g \in Graphs}}

StartNode(nodes) == (CHOOSE t \in StartTable : t[1] = nodes)[2]

StepTable ==
    {<<node, generate_step_description(node)>> :
        node \in {GraphNode(i, scheme) : i \in 1..MaxGraphNodes, scheme \in IdSchemes}}

StepNote(node) == (CHOOSE t \in StepTable : t[1] = node)[2]

\* The test at the head of the call left out
IsVisitedNever(node_id, visited) == FALSE

\* if node_id in visited: return
IsVisited(node_id, visited) == node_id \in visited

\* The call stack: a frame holds its node and how far its loop over the
\* connections has come; 0 is a call that has not yet run its head.
NoTraversal == [pc |-> "idle", stack |-> <<>>, steps |-> <<>>, visited |-> {}, revisited |-> {}]

Top == verdict.stack[Len(verdict.stack)]

Pop(v) ==
    LET rest == SubSeq(v.stack, 1, Len(v.stack) - 1)
    IN  [v EXCEPT !.stack = rest, !.pc = IF rest = <<>> THEN "done" ELSE "run"]

\* _generate_steps_from_structure: steps = [], visited = set(), the first call.
StartTraversal ==
    /\ verdict.pc = "idle"
    /\ verdict' = [verdict EXCEPT !.pc = "run", !.stack = <<[node |-> StartNode(given.nodes), at |-> 0]>>]
    /\ UNCHANGED <<files, now, db, lock, pass, search, hist, given>>

\* The head of _traverse_workflow: return at a visited id, else mark the id
\* and append the step.
Enter ==
    /\ verdict.pc = "run"
    /\ Top.at = 0
    /\ LET current_node == given.nodes[Top.node]
           depth == Len(verdict.stack)
       IN  IF IsVisited(current_node.id, verdict.visited)
           THEN verdict' = Pop([verdict EXCEPT !.revisited = @ \cup {Top.node}])
           ELSE verdict' =
                  [verdict EXCEPT
                     !.visited = @ \cup {current_node.id},
                     !.steps = IF StepNote(current_node) # ""
                               THEN Append(@, [node |-> Top.node,
                                               name |-> current_node.name,
                                               type |-> current_node.type,
                                               note |-> StepNote(current_node),
                                               id |-> current_node.id])
                               ELSE @,
                     !.stack[depth].at = 1]
    /\ UNCHANGED <<files, now, db, lock, pass, search, hist, given>>

\* One turn of the loop over the connections: the target is looked up by
\* name and, when found, traversed.
Follow ==
    /\ verdict.pc = "run"
    /\ Top.at >= 1
    /\ LET outs == given.connections[given.nodes[Top.node].name]
           depth == Len(verdict.stack)
       IN  /\ Top.at <= Len(outs)
           /\ LET next_node == NextNode(given.nodes, outs[Top.at])
                  moved == [verdict EXCEPT !.stack[depth].at = @ + 1]
              IN  verdict' = IF next_node # 0
                             THEN [moved EXCEPT !.stack = Append(@, [node |-> next_node, at |-> 0])]
                             ELSE moved
    /\ UNCHANGED <<files, now, db, lock, pass, search, hist, given>>

\* The loop is over: the call returns.
Return ==
    /\ verdict.pc = "run"
    /\ Top.at > Len(given.connections[given.nodes[Top.node].name])
    /\ verdict' = Pop(verdict)
    /\ UNCHANGED <<files, now, db, lock, pass, search, hist, given>>

(***************************************************************************)
(* Specifications.                                                         *)
(*   Spec        the command line: one indexing pass at a time, the files  *)
(*               edited under it, the cleanup script                       *)
(*   SpecSearch  searches running alongside the passes of the command line *)
(*   SpecServer  the API server: POST /api/reindex starts a pass as a      *)
(*               background task on a worker thread                        *)
(*   SpecNodes   analyze_nodes alone, over every short node list           *)
(*   SpecAnalysis  analyze_workflow_file alone, over longer documents      *)
(*   SpecDescription  generate_description alone, called twice             *)
(*   SpecTraverse  the step narrative of one document; the interpreter     *)
(*               runs the call to its end, so the steps are taken fairly   *)
(***************************************************************************)
Index ==
    \/ \E force_reindex \in BOOLEAN : StartPass(1, force_reindex, TRUE)
    \/ PassVisit(1)
    \/ PassAnalyze(1)
    \/ PassStore(1)
    \/ PassCommit(1)

Environment ==
    \/ \E f \in Files, bytes \in Contents \cup {Absent} : EditFile(f, bytes)
    \/ Tick

Next == Index \/ Environment \/ cleanup_orphaned_workflows

Spec == Init /\ [][Next]_vars

NextSearch == Index \/ Tick \/ search_workflows

\* Every file of the directory holds a well-formed document.
InitSearch == Init /\ \A f \in Files : files[f] \in WellFormed

SpecSearch == InitSearch /\ [][NextSearch]_vars

\* reindex_workflows: background_tasks.add_task(run_indexing)
reindex_workflows(force) == \E p \in Slots : StartPass(p, force, FALSE)

NextServer ==
    \/ \E force \in BOOLEAN : reindex_workflows(force)
    \/ \E p \in Slots : PassVisit(p) \/ PassAnalyze(p) \/ PassStore(p) \/ PassCommit(p)
    \/ Environment

SpecServer == Init /\ [][NextServer]_vars

InitNodes ==
    /\ files = [f \in Files |-> Absent]
    /\ now = 0
    /\ db = EmptyDb
    /\ lock = {}
    /\ pass = [p \in Slots |-> IdlePass]
    /\ search = [pc |-> "idle", calls |-> 0]
    /\ hist = [passNo |-> 0, edits |-> 0, base |-> files, prevQuiet |-> FALSE]
    /\ given \in NodeLists
    /\ verdict = NoVerdict

NextNodes == AnalyzeNodes \/ \E i \in 1..MaxNodes : Reorder(i)

SpecNodes == InitNodes /\ [][NextNodes]_vars

InitAnalysis ==
    /\ files = [f \in Files |-> Absent]
    /\ now = 0
    /\ db = EmptyDb
    /\ lock = {}
    /\ pass = [p \in Slots |-> IdlePass]
    /\ search = [pc |-> "idle", calls |-> 0]
    /\ hist = [passNo |-> 0, edits |-> 0, base |-> files, prevQuiet |-> FALSE]
    /\ given \in ParsedDocuments
    /\ verdict = NoAnalysis

NextAnalysis == AnalyzeFile

SpecAnalysis == InitAnalysis /\ [][NextAnalysis]_vars

InitDescription ==
    /\ files = [f \in Files |-> Absent]
    /\ now = 0
    /\ db = EmptyDb
    /\ lock = {}
    /\ pass = [p \in Slots |-> IdlePass]
    /\ search = [pc |-> "idle", calls |-> 0]
    /\ hist = [passNo |-> 0, edits |-> 0, base |-> files, prevQuiet |-> FALSE]
    /\ given \in DescriptionInputs
    /\ verdict = NoDescription

NextDescription == Describe

SpecDescription == InitDescription /\ [][NextDescription]_vars

InitTraverse ==
    /\ files = [f \in Files |-> Absent]
    /\ now = 0
    /\ db = EmptyDb
    /\ lock = {}
    /\ pass = [p \in Slots |-> IdlePass]
    /\ search = [pc |-> "idle", calls |-> 0]
    /\ hist = [passNo |-> 0, edits |-> 0, base |-> files, prevQuiet |-> FALSE]
    /\ given \in Graphs
    /\ verdict = NoTraversal

NextTraverse == StartTraversal \/ Enter \/ Follow \/ Return

SpecTraverse == InitTraverse /\ [][NextTraverse]_vars /\ WF_vars(NextTraverse)

(***************************************************************************)
(* Properties.                                                             *)
(***************************************************************************)
\* The matches the loop tests for (lines 331-337), taken node by node.
MentionsSchedule(node) ==
    Contains("cron", lower(node.type)) \/ Contains("schedule", lower(node.type))

MentionsWebhook(node) ==
    \/ Contains("webhook", lower(node.type))
    \/ Contains("webhook", lower(node.name))
    \/ Contains("trigger", lower(node.type)) /\ ~Contains("manual", lower(node.type))

\* Scheduled > Webhook > Manual over all nodes of the list
HighestPriority(list) ==
    IF \E i \in 1..Len(list) : MentionsSchedule(list[i]) THEN "Scheduled"
    ELSE IF \E i \in 1..Len(list) : MentionsWebhook(list[i]) THEN "Webhook"
    ELSE "Manual"

\* C1: the trigger classification of a node list (before the Complex
\* override) is the highest-priority match among all nodes under
\* Scheduled > Webhook > Manual, so the same nodes in another order get the
\* same classification, and a list with a cron/schedule node and a webhook
\* node is Scheduled.
C1_TriggerIsHighestPriority ==
    verdict.done =>
        /\ verdict.trigger = HighestPriority(given)
        /\ verdict.earlier # "" => verdict.trigger = verdict.earlier

\* C2: a non-forced pass over files that have not changed since the pass
\* before it calls analyze_workflow_file for no file, failed files included,
\* and writes no record.
C2_SecondPassAnalyzesNothing ==
    \A p \in Slots :
        (/\ pass[p].pc = "done"
         /\ ~pass[p].force
         /\ pass[p].second
         /\ pass[p].quiet
         /\ pass[p].changed = {})
        => pass[p].analyzed = {} /\ pass[p].wrote = {}

\* C3: every row of workflows has exactly one entry in the full-text index,
\* holding the row's current searchable columns, and no entry is left of a
\* row that was replaced or deleted.
C3_IndexInLockStep ==
    /\ \A r \in db.rows :
          /\ Cardinality({e \in db.fts : e.rowid = r.id}) = 1
          /\ \A e \in db.fts :
                e.rowid = r.id => e.terms = TermsOfRow(r)
    /\ \A e \in db.fts : \E r \in db.rows : r.id = e.rowid

\* C4 as stated: a visited file is skipped (not analyzed, nothing written)
\* exactly when the pass is not forced and the store holds a row of that
\* filename with the file's current fingerprint; in every other case it
\* is analyzed.
C4_SkippedIffUnchanged ==
    [][\A p \in Slots :
          (pass[p].pc = "next" /\ pass'[p].todo # pass[p].todo) =>
             LET f == pass'[p].cur
                 stored == {r.file_hash : r \in {x \in ReadView(p).rows : x.filename = f}}
                 unchanged == /\ ~pass[p].force
                              /\ files[f] # Absent
                              /\ get_file_hash(files[f]) \in stored
             IN  /\ unchanged => /\ pass'[p].stats.skipped = pass[p].stats.skipped + 1
                                 /\ pass'[p].pc = "next"
                 /\ ~unchanged => /\ pass'[p].stats.skipped = pass[p].stats.skipped
                                  /\ pass'[p].pc = "analyze"
      ]_vars

\* C4, amended: a visited file whose bytes can be read is skipped exactly
\* when the pass is not forced and the store holds a row of that filename
\* with the file's current fingerprint, and is analyzed otherwise; a forced
\* pass analyzes every file; a file that cannot be read when a non-forced
\* pass visits it is counted as an error, neither skipped nor analyzed.
C4_SkipIffUnchanged ==
    [][\A p \in Slots :
          (pass[p].pc = "next" /\ pass'[p].todo # pass[p].todo) =>
             LET f == pass'[p].cur
                 skipped == pass'[p].stats.skipped = pass[p].stats.skipped + 1
                 stored == {r.file_hash : r \in {x \in ReadView(p).rows : x.filename = f}}
             IN  /\ ~skipped => pass'[p].stats.skipped = pass[p].stats.skipped
                 /\ skipped => /\ pass'[p].pc = "next"
                               /\ pass'[p].analyzed = pass[p].analyzed
                               /\ pass'[p].wrote = pass[p].wrote
                               /\ ReadView(p)' = ReadView(p)
                 /\ pass[p].force => ~skipped /\ pass'[p].pc = "analyze"
                 /\ (~pass[p].force /\ files[f] # Absent) =>
                       /\ skipped <=> get_file_hash(files[f]) \in stored
                       /\ ~skipped => pass'[p].pc = "analyze"
                 /\ (~pass[p].force /\ files[f] = Absent) =>
                       /\ ~skipped
                       /\ pass'[p].pc = "next"
                       /\ pass'[p].stats.errors = pass[p].stats.errors + 1
      ]_vars

C4_Witness ==
    \E p \in Slots :
        /\ ~pass[p].force
        /\ pass[p].stats.skipped > 0
        /\ pass[p].analyzed # {}

\* C5: when the content of exactly one file changed between two passes, the
\* second (non-forced) pass analyzes that file and no other, and writes no
\* record but that file's.
C5_OnlyChangedFileAnalyzed ==
    \A p \in Slots :
        (/\ pass[p].pc = "done"
         /\ ~pass[p].force
         /\ pass[p].second
         /\ pass[p].quiet
         /\ \E f \in Files : pass[p].changed = {f} /\ hist.base[f] # Absent)
        => pass[p].analyzed = pass[p].changed /\ pass[p].wrote \subseteq pass[p].changed

Stores == {db} \cup {pass[p].view : p \in lock}

Metadata(r) ==
    [filename |-> r.filename, name |-> r.name, active |-> r.active,
     description |-> r.description, trigger_type |-> r.trigger_type, complexity |-> r.complexity,
     node_count |-> r.node_count, integrations |-> r.integrations]

Complete(r) == \E data \in WellFormed : Metadata(r) \in Analyses(r.filename, data)

\* C6: the store, committed or in a pass's open transaction, holds at most
\* one row per filename and the metadata of every row comes from one
\* analysis of one document; a write of a filename leaves exactly one row
\* for it, every column of which is the value just analyzed under a fresh
\* id, and leaves the rows of the other filenames as they were.
C6_OneRecordPerFilename ==
    /\ [](\A d \in Stores :
             /\ \A r1, r2 \in d.rows : r1.filename = r2.filename => r1 = r2
             /\ \A r \in d.rows : Complete(r))
    /\ [][\A p \in Slots :
             (/\ pass[p].pc = "store"
              /\ pass'[p].stats.processed = pass[p].stats.processed + 1) =>
                LET f == pass[p].cur
                    before == ReadView(p)
                    after == pass'[p].view
                    mine == {r \in after.rows : r.filename = f}
                IN  /\ Cardinality(mine) = 1
                    /\ \A r \in mine :
                          /\ r.id \notin {x.id : x \in before.rows}
                          /\ r.analyzed_at = now
                          /\ \E w \in analyze_workflow_file(f, pass[p].data, files[f]) :
                                Metadata(r) = Metadata(w) /\ r.file_hash = w.file_hash
                    /\ {r \in after.rows : r.filename # f}
                          = {r \in before.rows : r.filename # f}
         ]_vars

C6_Witness ==
    \E p \in Slots :
        /\ pass[p].pc = "done"
        /\ pass[p].replaced # {}
        /\ \A f \in pass[p].replaced : Cardinality({r \in db.rows : r.filename = f}) = 1

\* Each query text with whether it holds any text and the terms it asks for.
QueryTexts == {<<query, strip(query) # "", Tokens(query)>> : query \in Queries}

\* The rows of store d that pass the filters that are set and, for a query
\* text, whose own searchable columns hold the query's terms.
Candidates(d, params) ==
    LET text == CHOOSE t \in QueryTexts : t[1] = params.query
    IN  {r \in d.rows :
            /\ params.active_only => r.active
            /\ params.trigger_filter # "all" => r.trigger_type = params.trigger_filter
            /\ params.complexity_filter # "all" => r.complexity = params.complexity_filter
            /\ text[2] => text[3] \subseteq TermsOfRow(r)}

PageRows == {search.page[i] : i \in DOMAIN search.page}

\* C7: while a pass holds the write lock the next statement of a search can
\* run, and what the statement reads of any filename is the committed row
\* as it was before the pass's upsert or the row the upsert wrote, whole:
\* never a torn row, never no row for a filename that has one.
C7_SearchNeitherWaitsNorTears ==
    /\ [](lock # {} /\ (search.pc = "counted" \/ search.calls < MaxSearches)
            => ENABLED search_workflows)
    /\ [][search' # search =>
            LET read == IF search'.pc = "counted" THEN search'.at_count ELSE search'.at_page
                after == {pass[p].view : p \in lock}
                returned == IF search'.pc = "done"
                            THEN {search'.page[i] : i \in DOMAIN search'.page} ELSE {}
            IN  /\ \A f \in Files :
                      LET seen == {r \in read.rows : r.filename = f}
                      IN  /\ \/ seen = {r \in db.rows : r.filename = f}
                             \/ \E d \in after : seen = {r \in d.rows : r.filename = f}
                          /\ (\E r \in db.rows : r.filename = f) => seen # {}
                          /\ \A r \in seen : Complete(r)
                /\ \A r \in returned : Complete(r) /\ r \in read.rows
       ]_vars

C7_Witness ==
    /\ search.pc = "done"
    /\ search.replacing # {}
    /\ \A f \in search.replacing : \E r \in PageRows : r.filename = f

\* C8: however many POST /api/reindex arrive while a pass runs, at no time
\* do two indexing passes run, so no file is visited by overlapping passes.
C8_OnePassAtATime == Cardinality({p \in Slots : Running(p)}) <= 1

\* C9: the total a search returns is the number of candidates (the rows
\* passing the filters and the query text) whatever limit and offset are,
\* and at an offset of that number or more the page is empty.
C9_TotalBeforePagination ==
    search.pc = "done" =>
        LET n == Cardinality(Candidates(search.at_count, search.params))
        IN  /\ search.total = n
            /\ search.params.offset >= n => search.page = <<>>

\* C10: the rows a search returns pass every filter that is set (and hold
\* the query's terms, if there is a query text); every row that does is
\* counted in the total and is on the page when the page is large enough;
\* with and without a query text.
C10_FiltersConjunctive ==
    search.pc = "done" =>
        LET paged == Candidates(search.at_page, search.params)
        IN  /\ PageRows \subseteq paged
            /\ search.total = Cardinality(Candidates(search.at_count, search.params))
            /\ (search.params.offset = 0 /\ search.params.limit >= Cardinality(paged))
               => PageRows = paged

C10_Witness ==
    /\ search.pc = "done"
    /\ search.params.query = "webhook"
    /\ search.params.trigger_filter # "all"
    /\ search.params.active_only
    /\ PageRows # {}
    /\ \E r \in search.at_page.rows : r \notin PageRows /\ ~r.active


\* C11: with an empty or blank query the rows returned pass the filters
\* and come in descending analyzed_at: of two rows of the page the one with
\* the later analyzed_at comes first, and no candidate left off the first
\* page is later than a row on it.
C11_EmptyQueryNewestFirst ==
    (search.pc = "done" /\ strip(search.params.query) = "") =>
        LET page == search.page
            paged == Candidates(search.at_page, search.params)
        IN  /\ PageRows \subseteq paged
            /\ \A i, j \in DOMAIN page : i < j => page[i].analyzed_at >= page[j].analyzed_at
            /\ search.params.offset = 0 =>
                  \A c \in paged \ PageRows : \A r \in PageRows : c.analyzed_at <= r.analyzed_at

C11_Witness ==
    /\ search.pc = "done"
    /\ search.params.query = " "
    /\ Len(search.page) = 2
    /\ search.page[1].analyzed_at > search.page[2].analyzed_at

\* C12: for a search asked by page number p and page size (offset =
\* (p-1)*size) the page count is the ceiling of total/size and the page
\* holds the candidates at positions (p-1)*size+1 .. min(p*size, total):
\* that many of them, none when p is past the last page.
C12_PageCountAndPositions ==
    (search.pc = "done" /\ search.params.offset % search.params.limit = 0) =>
        LET size == search.params.limit
            p == search.params.offset \div size + 1
            first == (p - 1) * size + 1
            last == IF p * size < search.total THEN p * size ELSE search.total
        IN  /\ search.pages * size >= search.total
            /\ (search.pages - 1) * size < search.total
            /\ Len(search.page) = IF last >= first THEN last - first + 1 ELSE 0
            /\ PageRows \subseteq Candidates(search.at_count, search.params)

Filenames(d) == {r.filename : r \in d.rows}

\* C13: a step of an indexing pass never takes a filename's record out of
\* the store, whether the file is gone or the directory itself is missing;
\* a record goes only in a step of the cleanup, which is a step that
\* leaves every pass where it was.
C13_PassNeverRemoves ==
    [][ /\ pass' # pass => Filenames(db) \subseteq Filenames(db')
        /\ \A p \in Slots :
              (p \in lock /\ p \in lock') => Filenames(pass[p].view) \subseteq Filenames(pass'[p].view)
        /\ \A p \in Slots :
              (p \notin lock /\ p \in lock') => Filenames(db) \subseteq Filenames(pass'[p].view)
      ]_vars

\* A pass has found the directory missing and returned, and the record of a
\* file that is gone is still in the store.
C13_Witness ==
    \E p \in Slots :
        /\ pass[p].pc = "done"
        /\ pass[p].dir = "missing"
        /\ \E r \in db.rows : files[r.filename] = Absent

\* The files a pass listed, those of them that do not analyze, and those
\* that do
Listed(rec) == {f \in Files : rec.seen[f] # Absent}

Failing(rec) == {f \in Files : rec.seen[f] \in Contents \ WellFormed}

Sound(rec) == {f \in Files : rec.seen[f] \in WellFormed}

\* C14: a file the pass tries to analyze and that does not decode or
\* analyze is counted as an error and nothing is written for it; the step
\* that counts it leaves the store and the open transaction as they were
\* and goes on to the next file; the pass ends with its counts, every
\* listed file counted once and every other file it tried processed.
C14_FailingFileSkippedAndCounted ==
    /\ [](\A p \in Slots :
             (pass[p].pc = "done" /\ pass[p].quiet /\ pass[p].dir = "found") =>
                 /\ pass[p].analyzed \subseteq Listed(pass[p])
                 /\ pass[p].stats.errors = Cardinality(Failing(pass[p]) \cap pass[p].analyzed)
                 /\ pass[p].wrote = Sound(pass[p]) \cap pass[p].analyzed
                 /\ pass[p].stats.processed = Cardinality(pass[p].wrote)
                 /\ pass[p].stats.skipped = Cardinality(Listed(pass[p]) \ pass[p].analyzed)
                 /\ pass[p].force => pass[p].analyzed = Listed(pass[p]))
    /\ [][\A p \in Slots :
             pass'[p].stats.errors = pass[p].stats.errors + 1 =>
                 /\ pass'[p].pc = "next"
                 /\ pass'[p].todo = pass[p].todo \ {pass'[p].cur}
                 /\ pass'[p].wrote = pass[p].wrote
                 /\ pass'[p].view = pass[p].view
                 /\ db' = db /\ lock' = lock
         ]_vars

\* A pass met a failing file and still wrote the record of another.
C14_Witness ==
    \E p \in Slots :
        /\ pass[p].pc = "done" /\ pass[p].quiet
        /\ Failing(pass[p]) \cap pass[p].analyzed # {}
        /\ pass[p].stats.errors = 1
        /\ pass[p].wrote # {}

\* C15: the complexity tier is low exactly for at most 5 nodes, medium
\* exactly for 6 to 15 and high exactly for 16 or more, in the indexer and
\* in the documentation generator alike.
C15_ComplexityTiers ==
    verdict.done =>
        LET n == Len(given.nodes)
        IN  \A tier \in {verdict.workflow.complexity, verdict.documented} :
                /\ tier \in {"low", "medium", "high"}
                /\ tier = "low" <=> n <= 5
                /\ tier = "medium" <=> (6 <= n /\ n <= 15)
                /\ tier = "high" <=> n >= 16
                /\ verdict.workflow.node_count = n

\* Documents on both sides of each boundary have been analyzed.
C15_Witness ==
    /\ verdict.done
    /\ Len(given.nodes) = 16
    /\ verdict.workflow.complexity = "high"

\* C16: the trigger type is Complex exactly when the document has more than
\* 10 nodes and more than 3 distinct integrations, whatever trigger its
\* nodes show; 10 nodes or 3 integrations leave the trigger the nodes show.
C16_ComplexOverride ==
    verdict.done =>
        LET w == verdict.workflow
            many == w.node_count > 10 /\ Cardinality(w.integrations) > 3
        IN  /\ w.trigger_type = "Complex" <=> many
            /\ ~many => w.trigger_type = TriggerScan(given.nodes)
            /\ w.node_count = Len(given.nodes)

\* Twelve nodes, one of them a cron node, and four integrations: Complex.
C16_Witness ==
    /\ verdict.done
    /\ Len(given.nodes) = 12
    /\ \E i \in 1..12 : given.nodes[i].type = "n8n-nodes-base.cron"
    /\ Cardinality(verdict.workflow.integrations) = 4
    /\ verdict.workflow.trigger_type = "Complex"

\* The node kinds the table marks "exclude from integrations": a base node
\* whose kind is a key of service_mappings with the value None.
ExcludedKind(node) ==
    /\ StartsWith(node.type, "n8n-nodes-base.")
    /\ MappingGet(Remove(node.type, "n8n-nodes-base."), "") = NONE

\* C17: the nodes of the excluded utility kinds add nothing to the
\* integrations, whatever their names: the integrations of a document are
\* those of its other nodes.
C17_ExcludedKindsAddNothing ==
    verdict.done =>
        verdict.workflow.integrations
            = NodeIntegrations(SelectSeq(given.nodes, LAMBDA node : ~ExcludedKind(node)))

\* C18: the document of the three nodes webhookTrigger, httpRequest and set
\* is analyzed as complexity low, trigger Webhook, node count 3 and the
\* integrations {"HTTP"}.
C18_WebhookRelayExample ==
    (verdict.done /\ given.nodes = RelayNodes) =>
        /\ verdict.workflow.complexity = "low"
        /\ verdict.workflow.trigger_type = "Webhook"
        /\ verdict.workflow.node_count = 3
        /\ verdict.workflow.integrations = {"HTTP"}

\* C19: two calls of generate_description with the same name, trigger type,
\* set of integrations and node count return the same text, in whatever
\* order the set was filled or iterates, also with more than 3 elements.
C19_DescriptionDeterministic ==
    verdict.runs = 2 => verdict.description = verdict.first

\* C20: the traversal of any node list and connection mapping comes to its
\* end, cycles and self-loops included, and at no moment do the steps hold
\* two steps of one node.
C20_TraversalTerminatesOnce ==
    /\ <>(verdict.pc = "done")
    /\ [](\A i, j \in DOMAIN verdict.steps :
             i # j => verdict.steps[i].node # verdict.steps[j].node)

\* A traversal has ended on a graph of three nodes with ids of their own
\* where the third node is reached along two paths and leads back to the start:
\* three steps, and the guard has turned back both arrivals.
C20_Witness ==
    /\ verdict.pc = "done"
    /\ given.nodes[1].id # ""
    /\ given.connections = [x \in {"a", "b", "c"} |->
                               IF x = "a" THEN <<"b", "c">>
                               ELSE IF x = "b" THEN <<"c">> ELSE <<"a">>]
    /\ Len(verdict.steps) = 3
    /\ verdict.revisited = {1, 3}

\* The node a connection's target name stands for: the first node of the
\* document with that name, 0 when there is none.
NodeNamed(nodes, target) ==
    LET hits == {k \in 1..Len(nodes) : nodes[k].name = target}
    IN  IF hits = {} THEN 0 ELSE CHOOSE k \in hits : \A m \in hits : k <= m

\* The nodes the connections of node n lead to, in the order of its ports.
Successors(graph, n) ==
    LET outs == graph.connections[graph.nodes[n].name]
        found == [k \in 1..Len(outs) |-> NodeNamed(graph.nodes, outs[k])]
    IN  SelectSeq(found, LAMBDA m : m # 0)

\* Depth-first pre-order over nodes told apart by their place in the
\* document: `todo` is what is still to be entered, `out` the nodes entered.
RECURSIVE PreOrder(_, _, _)
PreOrder(graph, todo, out) ==
    IF todo = <<>> THEN out
    ELSE IF \E k \in 1..Len(out) : out[k] = Head(todo)
         THEN PreOrder(graph, Tail(todo), out)
         ELSE PreOrder(graph, Successors(graph, Head(todo)) \o Tail(todo),
                       Append(out, Head(todo)))

\* C21: with no notes on the nodes, the finished narrative holds exactly one
\* step for every node reachable from the start node along the connections
\* resolved by name, in depth-first pre-order, the nodes told apart as
\* nodes: none is left out because another was visited first.
C21_OneStepPerReachableNode ==
    verdict.pc = "done" =>
        [k \in 1..Len(verdict.steps) |-> verdict.steps[k].node]
            = PreOrder(given, <<StartNode(given.nodes)>>, <<>>)

(***************************************************************************)
(* _extract_or_generate_steps: the notes of the nodes where there are any, *)
(* the traversal of the connections where there are none.  A node of these *)
(* documents has no `notes` key, an empty note or a written one.           *)
(***************************************************************************)
NoNote == "None"

Notes == {NoNote, "", "Check the stock level"}

NotedNode(node, note) ==
    [id |-> node.id, name |-> node.name, type |-> node.type, notes |-> note]

Bare(node) == [id |-> node.id, name |-> node.name, type |-> node.type]

NotedGraphs ==
    UNION {[nodes : {[i \in 1..Len(g.nodes) |-> NotedNode(g.nodes[i], marks[i])] :
                        marks \in [1..Len(g.nodes) -> Notes]},
            connections : {g.connections}] :
           g \in {h \in Graphs : h.nodes[1].id # ""}}

\* A note is taken wherever the key is present
HasNoteKey(note) == note # NoNote

\* if note:
HasNote(note) == note \notin {NoNote, ""}

\* The loop of lines 217-225 from node i on.
RECURSIVE nodes_with_notes(_, _)
nodes_with_notes(nodes, i) ==
    IF i > Len(nodes) THEN <<>>
    ELSE IF HasNote(nodes[i].notes)
         THEN <<[node |-> i, name |-> nodes[i].name, type |-> nodes[i].type,
                 note |-> nodes[i].notes, id |-> nodes[i].id]>>
                  \o nodes_with_notes(nodes, i + 1)
         ELSE nodes_with_notes(nodes, i + 1)

\* _traverse_workflow as a function: `todo` holds the calls still to be
\* made, first the next one; a call at a visited id returns at once.
RECURSIVE traverse_workflow(_, _, _, _)
traverse_workflow(graph, todo, steps, visited) ==
    IF todo = <<>> THEN steps
    ELSE LET current_node == graph.nodes[Head(todo)]
             outs == graph.connections[current_node.name]
             found == [k \in 1..Len(outs) |-> NextNode(graph.nodes, outs[k])]
         IN  IF IsVisited(current_node.id, visited)
             THEN traverse_workflow(graph, Tail(todo), steps, visited)
             ELSE traverse_workflow(
                      graph,
                      SelectSeq(found, LAMBDA m : m # 0) \o Tail(todo),
                      IF StepNote(Bare(current_node)) # ""
                          THEN Append(steps, [node |-> Head(todo),
                                              name |-> current_node.name,
                                              type |-> current_node.type,
                                              note |-> StepNote(Bare(current_node)),
                                              id |-> current_node.id])
                          ELSE steps,
                      visited \cup {current_node.id})

generate_steps_from_structure(graph) ==
    IF graph.nodes = <<>> THEN <<>>
    ELSE traverse_workflow(graph,
                           <<StartNode([i \in 1..Len(graph.nodes) |-> Bare(graph.nodes[i])])>>,
                           <<>>, {})

extract_or_generate_steps(graph) ==
    IF nodes_with_notes(graph.nodes, 1) # <<>>
        THEN nodes_with_notes(graph.nodes, 1)
        ELSE generate_steps_from_structure(graph)

NoSteps == [pc |-> "idle", steps |-> <<>>]

ExtractSteps ==
    /\ verdict.pc = "idle"
    /\ verdict' = [pc |-> "done", steps |-> extract_or_generate_steps(given)]
    /\ UNCHANGED <<files, now, db, lock, pass, search, hist, given>>

InitSteps ==
    /\ files = [f \in Files |-> Absent]
    /\ now = 0
    /\ db = EmptyDb
    /\ lock = {}
    /\ pass = [p \in Slots |-> IdlePass]
    /\ search = [pc |-> "idle", calls |-> 0]
    /\ hist = [passNo |-> 0, edits |-> 0, base |-> files, prevQuiet |-> FALSE]
    /\ given \in NotedGraphs
    /\ verdict = NoSteps

NextSteps == ExtractSteps

\* _extract_or_generate_steps alone, over documents with and without notes
SpecSteps == InitSteps /\ [][NextSteps]_vars

\* The nodes of the document that carry a written note, in document order.
Noted(nodes) == SelectSeq([i \in 1..Len(nodes) |-> i], LAMBDA i : nodes[i].notes \notin {NoNote, ""})

\* C22: when at least one node carries a non-empty note, the narrative is
\* the name, type and note of every such node in document order and nothing
\* else: a node without a note adds no step, and the connections play no
\* part in the result.
C22_NotesAreTheNarrative ==
    (verdict.pc = "done" /\ Noted(given.nodes) # <<>>) =>
        /\ Len(verdict.steps) = Len(Noted(given.nodes))
        /\ \A k \in 1..Len(verdict.steps) :
              LET node == given.nodes[Noted(given.nodes)[k]]
              IN  /\ verdict.steps[k].name = node.name
                  /\ verdict.steps[k].type = node.type
                  /\ verdict.steps[k].note = node.notes

\* A document whose third node alone has a written note, the second an
\* empty one, with connections from the first node: one step, the third's.
C22_Witness ==
    /\ verdict.pc = "done"
    /\ Len(given.nodes) = 3
    /\ given.nodes[1].notes = NoNote
    /\ given.nodes[2].notes = ""
    /\ HasNote(given.nodes[3].notes)
    /\ given.connections["a"] = <<"b", "c">>
    /\ Len(verdict.steps) = 1
    /\ verdict.steps[1].name = "c"

(***************************************************************************)
(* generate_mermaid_diagram (api_server.py) and _generate_workflow_diagram *)
(* (generate_documentation.py): the same code twice.  `connections` is the *)
(* dictionary in the order of its keys, each key with its `main` list: a   *)
(* list of output ports, each the list of the target names of its          *)
(* connections.  A statement of the result keeps, next to its text, what   *)
(* it was made from.                                                        *)
(***************************************************************************)
MaxDiagramNodes == 2

MaxPorts == 2

MaxEntries == 2

\* A node without a `name` key
NoName == "None"

DiagramNames == {NoName, "Fetch", "Say \"hi\""}

DiagramTypes == <<"n8n-nodes-base.webhook", "n8n-nodes-base.if", "n8n-nodes-base.set">>

DiagramNode(i, name) ==
    [id |-> "id-" \o name, name |-> name, type |-> DiagramTypes[((i - 1) % 3) + 1]]

DiagramNodeLists ==
    UNION {{[i \in 1..n |-> DiagramNode(i, names[i])] : names \in [1..n -> DiagramNames]} :
           n \in 0..MaxDiagramNodes}

\* The names a connection may use: those of the nodes and one of no node.
EndNames == (DiagramNames \ {NoName}) \cup {Ghost}

OutputPorts ==
    {<<>>} \cup {<<t>> : t \in EndNames} \cup {<<"Fetch", "Say \"hi\"">>}

MainLists == UNION {[1..k -> OutputPorts] : k \in 1..MaxPorts}

ConnectionTables ==
    {c \in UNION {[1..k -> [source : EndNames, main : MainLists]] : k \in 0..MaxEntries} :
        \A i, j \in 1..Len(c) : i # j => c[i].source # c[j].source}

Diagrams == [nodes : DiagramNodeLists, connections : ConnectionTables]

\* node_id = f"node{i}", i counted from 0
NodeId(i) == "node" \o ToString(i - 1)

\* node.get('name', f'Node {i}') of the first loop
MappedName(nodes, i) ==
    IF nodes[i].name = NoName THEN "Node " \o ToString(i - 1) ELSE nodes[i].name

\* node.get('name', 'Unnamed') of the second loop
EmittedName(node) == IF node.name = NoName THEN "Unnamed" ELSE node.name

\* mermaid_ids after the first loop: a later node of a name takes its place.
mermaid_ids(nodes) ==
    [name \in {MappedName(nodes, i) : i \in 1..Len(nodes)} |->
        NodeId(CHOOSE i \in 1..Len(nodes) :
                  /\ MappedName(nodes, i) = name
                  /\ \A j \in (i + 1)..Len(nodes) : MappedName(nodes, j) # name)]

\* s.replace('"', "'")
RECURSIVE Unquote(_)
Unquote(s) ==
    IF Len(s) = 0 THEN s
    ELSE (IF SubSeq(s, 1, 1) = "\"" THEN "'" ELSE SubSeq(s, 1, 1)) \o Unquote(SubSeq(s, 2, Len(s)))

NodeStyle(node_type) ==
    IF \E x \in {"trigger", "webhook", "cron"} : Contains(x, lower(node_type))
        THEN "fill:#b3e0ff,stroke:#0066cc"
    ELSE IF \E x \in {"if", "switch"} : Contains(x, lower(node_type))
        THEN "fill:#ffffb3,stroke:#e6e600"
    ELSE IF \E x \in {"function", "code"} : Contains(x, lower(node_type))
        THEN "fill:#d9b3ff,stroke:#6600cc"
    ELSE IF Contains("error", lower(node_type))
        THEN "fill:#ffb3b3,stroke:#cc0000"
    ELSE "fill:#d9d9d9,stroke:#666666"

\* The label and the style of every node of these documents, tabulated.
LabelTable ==
    {<<node, Unquote(EmittedName(node)) \o "<br>("
               \o Unquote(Remove(node.type, "n8n-nodes-base.")) \o ")",
       NodeStyle(Remove(node.type, "n8n-nodes-base."))>> :
        node \in {DiagramNode(i, name) : i \in 1..(MaxDiagramNodes + 1), name \in DiagramNames}}

NodeLabel(node) == (CHOOSE t \in LabelTable : t[1] = node)[2]

StyleOf(node) == (CHOOSE t \in LabelTable : t[1] = node)[3]

\* The node statements of the second loop: two lines per node.
NodeStatements(nodes) ==
    [i \in 1..Len(nodes) |->
        LET node_id == mermaid_ids(nodes)[EmittedName(nodes[i])]
        IN  [pos |-> i, id |-> node_id,
             text |-> "  " \o node_id \o "[\"" \o NodeLabel(nodes[i]) \o "\"]",
             style |-> "  style " \o node_id \o " " \o StyleOf(nodes[i])]]

\* Every edge carries the index of its port
EdgeLabelAlways(i, main_connections) == ToString(i)

\* f" -->|{i}| " if len(main_connections) > 1 else " --> "
EdgeLabel(i, main_connections) == IF Len(main_connections) > 1 THEN ToString(i) ELSE ""

Arrow(label) == IF label = "" THEN " --> " ELSE " -->|" \o label \o "| "

\* The edge statements of one port: the connections whose target is mapped.
PortStatements(ids, entry, i) ==
    LET output_connections == entry.main[i + 1]
        kept == SelectSeq([k \in 1..Len(output_connections) |-> k],
                          LAMBDA k : output_connections[k] \in DOMAIN ids)
    IN  [k \in 1..Len(kept) |->
            LET target_name == output_connections[kept[k]]
                label == EdgeLabel(i, entry.main)
            IN  [source |-> entry.source, port |-> i, at |-> kept[k], target |-> target_name,
                 from |-> ids[entry.source], to |-> ids[target_name], label |-> label,
                 text |-> "  " \o ids[entry.source] \o Arrow(label) \o ids[target_name]]]

RECURSIVE EntryStatements(_, _, _)
EntryStatements(ids, entry, i) ==
    IF i >= Len(entry.main) THEN <<>>
    ELSE PortStatements(ids, entry, i) \o EntryStatements(ids, entry, i + 1)

\* The third loop: the entries of `connections` in order, an entry whose
\* source is not mapped passed over.
RECURSIVE EdgeStatements(_, _, _)
EdgeStatements(ids, connections, e) ==
    IF e > Len(connections) THEN <<>>
    ELSE (IF connections[e].source \in DOMAIN ids
              THEN EntryStatements(ids, connections[e], 0)
              ELSE <<>>)
         \o EdgeStatements(ids, connections, e + 1)

RECURSIVE JoinLines(_)
JoinLines(lines) ==
    IF lines = <<>> THEN ""
    ELSE IF Len(lines) = 1 THEN lines[1]
    ELSE lines[1] \o "\n" \o JoinLines(Tail(lines))

RECURSIVE Flatten(_)
Flatten(seqs) == IF seqs = <<>> THEN <<>> ELSE seqs[1] \o Flatten(Tail(seqs))

\* The call as a whole.  mermaid_ids[node_name] of the second loop raises
\* KeyError for a name the first loop did not map.
generate_mermaid_diagram(nodes, connections) ==
    IF nodes = <<>>
        THEN [raised |-> "", nodes |-> <<>>, edges |-> <<>>,
              text |-> "graph TD\n  EmptyWorkflow[No nodes found in workflow]"]
    ELSE IF \E i \in 1..Len(nodes) : EmittedName(nodes[i]) \notin DOMAIN mermaid_ids(nodes)
        THEN [raised |-> "KeyError", nodes |-> <<>>, edges |-> <<>>, text |-> ""]
    ELSE LET drawn == NodeStatements(nodes)
             edges == EdgeStatements(mermaid_ids(nodes), connections, 1)
         IN  [raised |-> "", nodes |-> drawn, edges |-> edges,
              text |-> JoinLines(<<"graph TD">>
                           \o Flatten([i \in 1..Len(drawn) |-> <<drawn[i].text, drawn[i].style>>])
                           \o [k \in 1..Len(edges) |-> edges[k].text])]

NoDiagram == [pc |-> "idle"]

Render ==
    /\ verdict.pc = "idle"
    /\ verdict' = [pc |-> "done", diagram |-> generate_mermaid_diagram(given.nodes, given.connections)]
    /\ UNCHANGED <<files, now, db, lock, pass, search, hist, given>>

InitDiagram ==
    /\ files = [f \in Files |-> Absent]
    /\ now = 0
    /\ db = EmptyDb
    /\ lock = {}
    /\ pass = [p \in Slots |-> IdlePass]
    /\ search = [pc |-> "idle", calls |-> 0]
    /\ hist = [passNo |-> 0, edits |-> 0, base |-> files, prevQuiet |-> FALSE]
    /\ given \in Diagrams
    /\ verdict = NoDiagram

NextDiagram == Render

\* One render call, over every small document
SpecDiagram == InitDiagram /\ [][NextDiagram]_vars

\* The names of the nodes of the document.
NodeNames(nodes) == {nodes[i].name : i \in 1..Len(nodes)} \ {NoName}

\* The connections of the document as (entry, port, place in the port), and
\* those among them whose two ends are names of nodes.
Connections(graph) ==
    {<<e, i, k>> \in (1..MaxEntries) \X (0..MaxPorts) \X (1..MaxOut) :
        /\ e <= Len(graph.connections)
        /\ i < Len(graph.connections[e].main)
        /\ k <= Len(graph.connections[e].main[i + 1])}

Resolvable(graph, c) ==
    /\ graph.connections[c[1]].source \in NodeNames(graph.nodes)
    /\ graph.connections[c[1]].main[c[2] + 1][c[3]] \in NodeNames(graph.nodes)

\* C23: where a connection names a source or a target that is no node of
\* the document, the diagram leaves out exactly those edges: it still has
\* one node statement for every node and one edge statement for every
\* connection whose two names are names of nodes.
C23_DanglingEdgesOmitted ==
    (/\ verdict.pc = "done"
     /\ \E c \in Connections(given) : ~Resolvable(given, c)) =>
        /\ verdict.diagram.raised = ""
        /\ Len(verdict.diagram.nodes) = Len(given.nodes)
        /\ \A i \in 1..Len(given.nodes) : verdict.diagram.nodes[i].pos = i
        /\ \A c \in Connections(given) :
              Cardinality({k \in 1..Len(verdict.diagram.edges) :
                              /\ verdict.diagram.edges[k].source = given.connections[c[1]].source
                              /\ verdict.diagram.edges[k].port = c[2]
                              /\ verdict.diagram.edges[k].at = c[3]})
                  = IF Resolvable(given, c) THEN 1 ELSE 0

\* C24: within one call the node at place i of the node list is emitted as
\* node{i}, whatever id it declares; so no two places share an identifier,
\* and every edge statement names the identifiers of the places of its
\* source and of its target.
C24_IdentifierPerPosition ==
    verdict.pc = "done" =>
        /\ verdict.diagram.raised = ""
        /\ Len(verdict.diagram.nodes) = Len(given.nodes)
        /\ \A i \in 1..Len(verdict.diagram.nodes) :
              /\ verdict.diagram.nodes[i].pos = i
              /\ verdict.diagram.nodes[i].id = NodeId(i)
        /\ \A k \in 1..Len(verdict.diagram.edges) :
              \E i, j \in 1..Len(given.nodes) :
                 /\ given.nodes[i].name = verdict.diagram.edges[k].source
                 /\ given.nodes[j].name = verdict.diagram.edges[k].target
                 /\ verdict.diagram.edges[k].from = NodeId(i)
                 /\ verdict.diagram.edges[k].to = NodeId(j)

\* The `main` list of the source of an edge statement.
MainOf(graph, edge) ==
    graph.connections[CHOOSE e \in 1..Len(graph.connections) :
                          graph.connections[e].source = edge.source].main

\* C26: an edge statement of a rendered diagram is labelled exactly when the
\* `main` list of its source has more than one port, the label is then the
\* index of the port of the connection, and the edges of a source with one
\* port carry no label.
C26_LabelIffSeveralPorts ==
    (verdict.pc = "done" /\ verdict.diagram.raised = "") =>
        \A k \in 1..Len(verdict.diagram.edges) :
            LET edge == verdict.diagram.edges[k]
                labelled == Contains("|", edge.text)
            IN  /\ labelled <=> Len(MainOf(given, edge)) > 1
                /\ labelled => edge.text = "  " \o edge.from \o " -->|" \o ToString(edge.port)
                                              \o "| " \o edge.to
                /\ ~labelled => edge.text = "  " \o edge.from \o " --> " \o edge.to

\* A diagram with an edge out of the second port of one source and an edge
\* out of the only port of another.
C26_Witness ==
    /\ verdict.pc = "done"
    /\ verdict.diagram.raised = ""
    /\ \E k, m \in 1..Len(verdict.diagram.edges) :
          /\ verdict.diagram.edges[k].port = 1
          /\ Contains("|1|", verdict.diagram.edges[k].text)
          /\ Len(MainOf(given, verdict.diagram.edges[m])) = 1
          /\ ~Contains("|", verdict.diagram.edges[m].text)

(***************************************************************************)
(* The rename scripts.  A directory is a set of files, each a name and a   *)
(* content; the content keeps the name the file had at the start, and the  *)
(* `stem` the analysis of the document comes to (its services, purpose and *)
(* trigger joined by underscores), which is all the new name takes from    *)
(* the document.  Only the pattern generic_workflow is planned for.        *)
(***************************************************************************)
MaxDirFiles == 3

MaxBatchSize == 2

RenameStems == {"Slack_Send", "Gmail_Email"}

\* The names a directory may hold at the start, in the order of sorted().
InitialNames ==
    <<"0001_A.json", "0001_Slack_Send.json", "7_Slack_Send.json",
      "7_workflow_1.json", "7_workflow_2.json", "8_workflow_3.json">>

RenameDirs ==
    {dir \in SUBSET [name : {InitialNames[i] : i \in 1..Len(InitialNames)}, stem : RenameStems] :
        /\ Cardinality(dir) <= MaxDirFiles
        /\ \A e1, e2 \in dir : e1.name = e2.name => e1 = e2}

\* The files of the directory as they are at the start.
Stocked(dir) == {[name |-> e.name, content |-> [stem |-> e.stem, origin |-> e.name]] : e \in dir}

FileNamesOf(dir) == {e.name : e \in dir}

FileNamed(dir, name) == CHOOSE e \in dir : e.name = name

\* os.rename on POSIX: the target, if there is one, is replaced.
OsRename(dir, old_path, new_path) ==
    IF old_path = new_path THEN dir
    ELSE {e \in dir : e.name \notin {old_path, new_path}}
             \cup {[name |-> new_path, content |-> FileNamed(dir, old_path).content]}

RECURSIVE LeadingDigits(_)
LeadingDigits(s) ==
    IF Len(s) > 0 /\ IsDigitChar(CharAt(s, 1)) THEN 1 + LeadingDigits(SubSeq(s, 2, Len(s))) ELSE 0

\* re.match(r'^\d+_workflow_\d+\.json$', filename)
IsGenericWorkflow(filename) ==
    LET n == LeadingDigits(filename)
        rest == SubSeq(filename, n + 1, Len(filename))
        tail == SubSeq(rest, Len("_workflow_") + 1, Len(rest))
    IN  /\ n > 0
        /\ StartsWith(rest, "_workflow_")
        /\ LeadingDigits(tail) > 0
        /\ SubSeq(tail, LeadingDigits(tail) + 1, Len(tail)) = ".json"

\* generate_new_name: the id at the head of the old name, then the stem.
generate_new_name(filename, stem) ==
    LET n == LeadingDigits(filename)
        prefix == IF n > 0 /\ CharAt(filename, n + 1) = "_" THEN SubSeq(filename, 1, n + 1) ELSE ""
    IN  prefix \o stem \o ".json"

\* The loop "Avoid conflicts" of plan_renames: _1, then _2 after that, ...
RECURSIVE AvoidConflicts(_, _, _, _)
AvoidConflicts(dir, file_path, new_name, counter) ==
    IF new_name \in FileNamesOf(dir) /\ new_name # file_path
        THEN AvoidConflicts(dir, file_path,
                 SubSeq(new_name, 1, Len(new_name) - Len(".json")) \o "_" \o ToString(counter) \o ".json",
                 counter + 1)
        ELSE new_name

\* The orders glob.glob may list a set of files in.
GlobOrders(names) ==
    {order \in [1..Cardinality(names) -> names] :
        \A i, j \in 1..Cardinality(names) : i # j => order[i] # order[j]}

\* plan_renames(['generic_workflow']) over the files in the order of the glob.
plan_renames(dir, order) ==
    LET planned == [i \in 1..Len(order) |->
                      [old_path |-> order[i],
                       new_path |-> AvoidConflicts(dir, order[i],
                                       generate_new_name(order[i], FileNamed(dir, order[i]).content.stem), 1)]]
    IN  SelectSeq(planned, LAMBDA op : op.new_path # op.old_path)

\* analyze_all_workflows of the comprehensive renamer: every file, sorted
\* by its name and numbered from 1; _generate_new_filename.
Sorted(names) ==
    SelectSeq(InitialNames, LAMBDA name : name \in names)

plan_comprehensive(dir) ==
    LET workflows == Sorted(FileNamesOf(dir))
    IN  [i \in 1..Len(workflows) |->
            [old_path |-> workflows[i],
             new_path |-> "000" \o ToString(i) \o "_"
                             \o FileNamed(dir, workflows[i]).content.stem \o ".json"]]

\* if os.path.exists(new_path) and old_path != new_path: continue
Conflict(dir, op) == op.new_path \in FileNamesOf(dir) /\ op.old_path # op.new_path

\* One turn of the loop of execute_rename_plan (comprehensive renamer).
RenamePlanStep(run, op) ==
    LET entry(outcome) == [op |-> op, outcome |-> outcome,
                           existed |-> op.new_path \in FileNamesOf(run.dir) /\ op.old_path # op.new_path,
                           before |-> run.dir]
    IN  IF Conflict(run.dir, op)
            THEN [run EXCEPT !.log = Append(@, entry("skipped"))]
        ELSE IF op.old_path \notin FileNamesOf(run.dir)
            THEN [run EXCEPT !.log = Append(@, entry("error"))]
        ELSE [run EXCEPT !.dir = OsRename(@, op.old_path, op.new_path),
                         !.log = Append(@, entry("renamed"))]

\* One turn of the loop of execute_renames (workflow_renamer), dry_run off:
\* os.rename inside try, with no test of the target.
RenameStep(run, op) ==
    LET entry(outcome) == [op |-> op, outcome |-> outcome,
                           existed |-> op.new_path \in FileNamesOf(run.dir) /\ op.old_path # op.new_path,
                           before |-> run.dir]
    IN  IF op.old_path \notin FileNamesOf(run.dir)
            THEN [run EXCEPT !.log = Append(@, entry("error"))]
        ELSE [run EXCEPT !.dir = OsRename(@, op.old_path, op.new_path),
                         !.log = Append(@, entry("renamed"))]

NoRename == [pc |-> "idle", dir |-> {}, plan |-> <<>>, log |-> <<>>]

\* The plan is drawn up: plan_renames, or analyze_all_workflows.
PlanRenames ==
    /\ verdict.pc = "idle"
    /\ \E order \in GlobOrders({name \in FileNamesOf(Stocked(given.dir)) : IsGenericWorkflow(name)}) :
          verdict' = [verdict EXCEPT
                        !.pc = "planned",
                        !.dir = Stocked(given.dir),
                        !.plan = IF given.renamer = "workflow_renamer"
                                     THEN plan_renames(Stocked(given.dir), order)
                                     ELSE plan_comprehensive(Stocked(given.dir))]
    /\ UNCHANGED <<files, now, db, lock, pass, search, hist, given>>

\* The head of the execution: the comprehensive renamer returns at an empty
\* plan and at a failed backup; execute_renames has only its loop.
StartRenames ==
    /\ verdict.pc = "planned"
    /\ \E backup \in BOOLEAN :
          verdict' = [verdict EXCEPT
                        !.pc = IF given.renamer = "comprehensive" /\ (verdict.plan = <<>> \/ ~backup)
                                   THEN "done" ELSE "run"]
    /\ UNCHANGED <<files, now, db, lock, pass, search, hist, given>>

ExecuteRename ==
    /\ verdict.pc = "run"
    /\ Len(verdict.log) < Len(verdict.plan)
    /\ verdict' = IF given.renamer = "workflow_renamer"
                      THEN RenameStep(verdict, verdict.plan[Len(verdict.log) + 1])
                      ELSE RenamePlanStep(verdict, verdict.plan[Len(verdict.log) + 1])
    /\ UNCHANGED <<files, now, db, lock, pass, search, hist, given>>

FinishRenames ==
    /\ verdict.pc = "run"
    /\ Len(verdict.log) = Len(verdict.plan)
    /\ verdict' = [verdict EXCEPT !.pc = "done"]
    /\ UNCHANGED <<files, now, db, lock, pass, search, hist, given>>

InitRename ==
    /\ files = [f \in Files |-> Absent]
    /\ now = 0
    /\ db = EmptyDb
    /\ lock = {}
    /\ pass = [p \in Slots |-> IdlePass]
    /\ search = [pc |-> "idle", calls |-> 0]
    /\ hist = [passNo |-> 0, edits |-> 0, base |-> files, prevQuiet |-> FALSE]
    /\ given \in [renamer : {"workflow_renamer", "comprehensive"}, dir : RenameDirs]
    /\ verdict = NoRename

NextRename == PlanRenames \/ StartRenames \/ ExecuteRename \/ FinishRenames

\* One run of either rename script over a directory nothing else touches
SpecRename == InitRename /\ [][NextRename]_vars

\* C25: an operation of an executed plan whose target exists, and is not
\* its source, is skipped and leaves both files as they were, and the
\* operations after it are still attempted; so no file of the directory is
\* overwritten and the number of files never goes down.
C25_ConflictSkipsOneItem ==
    /\ \A k \in 1..Len(verdict.log) :
          verdict.log[k].existed =>
              /\ verdict.log[k].outcome = "skipped"
              /\ (IF k < Len(verdict.log) THEN verdict.log[k + 1].before ELSE verdict.dir)
                     = verdict.log[k].before
    /\ verdict.pc = "done" /\ verdict.log # <<>> => Len(verdict.log) = Len(verdict.plan)
    /\ verdict.pc \in {"run", "done"} =>
          /\ Cardinality(verdict.dir) = Cardinality(given.dir)
          /\ {e.content : e \in verdict.dir} = {e.content : e \in Stocked(given.dir)}

(***************************************************************************)
(* run_batch_rename: the report run gives the number of files, then every  *)
(* batch is a process of its own that plans anew and executes its slice.   *)
(***************************************************************************)
\* execute_renames as a whole, from operation i on.
RECURSIVE execute_renames(_, _, _)
execute_renames(run, rename_plan, i) ==
    IF i > Len(rename_plan) THEN run
    ELSE execute_renames(RenameStep(run, rename_plan[i]), rename_plan, i + 1)

\* rename_plan[start_idx:end_idx]
BatchSlice(rename_plan, start_idx, end_idx) ==
    IF start_idx >= end_idx \/ start_idx >= Len(rename_plan) THEN <<>>
    ELSE SubSeq(rename_plan, start_idx + 1, IF end_idx < Len(rename_plan) THEN end_idx ELSE Len(rename_plan))

Matching(dir) == {name \in FileNamesOf(dir) : IsGenericWorkflow(name)}

NoBatch ==
    [pc |-> "idle", dir |-> {}, total_files |-> 0, total_batches |-> 0, batch_num |-> 0,
     printed |-> FALSE, success_count |-> 0, error_count |-> 0, batches |-> 0]

\* Lines 20-49 with start_from = 0: the report run counts the plan.
StartBatchRename ==
    /\ verdict.pc = "idle"
    /\ \E order \in GlobOrders(Matching(Stocked(given.dir))) :
          LET total_files == Len(plan_renames(Stocked(given.dir), order))
          IN  verdict' = [verdict EXCEPT
                            !.dir = Stocked(given.dir),
                            !.total_files = total_files,
                            !.total_batches = PageCount(total_files, given.batch_size),
                            !.pc = IF total_files = 0 THEN "returned" ELSE "batch"]
    /\ UNCHANGED <<files, now, db, lock, pass, search, hist, given>>

\* The batch process: the plan of the directory as it is now, its slice
\* from batch_num * batch_size, execute_renames on the slice.
RunBatch ==
    /\ verdict.pc = "batch"
    /\ verdict.batch_num < verdict.total_batches
    /\ \E order \in GlobOrders(Matching(verdict.dir)) :
          LET rename_plan == plan_renames(verdict.dir, order)
              start_idx == verdict.batch_num * given.batch_size
              end_idx == IF (verdict.batch_num + 1) * given.batch_size < Len(rename_plan)
                             THEN (verdict.batch_num + 1) * given.batch_size
                             ELSE Len(rename_plan)
              batch_plan == BatchSlice(rename_plan, start_idx, end_idx)
              ran == execute_renames([dir |-> verdict.dir, log |-> <<>>], batch_plan, 1)
          IN  verdict' = [verdict EXCEPT
                            !.dir = ran.dir,
                            !.printed = batch_plan # <<>>,
                            !.batches = @ + 1,
                            !.pc = "count"]
    /\ UNCHANGED <<files, now, db, lock, pass, search, hist, given>>

\* Lines 98-104: of "Batch results: 1 successful, 0 errors" the second word
\* is "results:", int() raises ValueError and the handler of line 112 adds
\* batch_size to error_count; a batch with no file prints no such line.
CountResults ==
    /\ verdict.pc = "count"
    /\ verdict' = [verdict EXCEPT
                     !.error_count = IF verdict.printed THEN @ + given.batch_size ELSE @,
                     !.pc = "cleanup"]
    /\ UNCHANGED <<files, now, db, lock, pass, search, hist, given>>

\* The finally clause: the module does not import os, so os.path.exists
\* raises NameError, which leaves the loop and the function.
CleanUp ==
    /\ verdict.pc = "cleanup"
    /\ verdict' = [verdict EXCEPT !.pc = "raised"]
    /\ UNCHANGED <<files, now, db, lock, pass, search, hist, given>>

InitBatch ==
    /\ files = [f \in Files |-> Absent]
    /\ now = 0
    /\ db = EmptyDb
    /\ lock = {}
    /\ pass = [p \in Slots |-> IdlePass]
    /\ search = [pc |-> "idle", calls |-> 0]
    /\ hist = [passNo |-> 0, edits |-> 0, base |-> files, prevQuiet |-> FALSE]
    /\ given \in [batch_size : 1..MaxBatchSize, dir : RenameDirs]
    /\ verdict = NoBatch

NextBatch == StartBatchRename \/ RunBatch \/ CountResults \/ CleanUp

\* run_batch_rename('generic_workflow', batch_size, 0) over a directory
\* nothing else touches
SpecBatch == InitBatch /\ [][NextBatch]_vars

\* C28: when run_batch_rename, started from batch 0, has come to its end,
\* every file that matched the pattern at the start has been renamed: none
\* of them is still in the directory under its old name.
C28_EveryPlannedFileRenamed ==
    verdict.pc \in {"returned", "raised"} =>
        \A name \in Matching(Stocked(given.dir)) : name \notin FileNamesOf(verdict.dir)

\* The metadata of a row is what the analysis of `data` gives for its file.
DerivedFrom(row, data) ==
    \E a \in Analyses(row.filename, data) :
        /\ row.name = a.name
        /\ row.active = a.active
        /\ row.description = a.description
        /\ row.trigger_type = a.trigger_type
        /\ row.complexity = a.complexity
        /\ row.node_count = a.node_count
        /\ row.integrations = a.integrations

\* C27: also when a file is modified while a pass is at it, the fingerprint
\* stored in its record is the fingerprint of the bytes the metadata of the
\* record was derived from; so a pass that is not forced skips a file only
\* when the stored metadata was derived from what the file holds now.
C27_FingerprintOfAnalyzedBytes ==
    /\ [](\A row \in db.rows :
             \E data \in WellFormed :
                /\ row.file_hash = get_file_hash(data)
                /\ DerivedFrom(row, data))
    /\ [][\A p \in Slots :
             pass'[p].stats.skipped = pass[p].stats.skipped + 1 =>
                 \E row \in ReadView(p).rows :
                    /\ row.filename = pass'[p].cur
                    /\ files[pass'[p].cur] \in WellFormed
                    /\ DerivedFrom(row, files[pass'[p].cur])
         ]_vars

(***************************************************************************)
(* A client of GET /api/workflows that reads page 1, then page 2, ... of   *)
(* one search while nothing writes to the store.  The page statement sorts *)
(* through an ephemeral index keyed by the ORDER BY term and a sequence    *)
(* number (EXPLAIN shows OpenEphemeral, Sequence, IdxInsert): rows of      *)
(* equal key come out in the order of the scan, which is the order of      *)
(* their rowids.  The rank of a text query is a function of the index and  *)
(* the query; which one is left open.                                      *)
(***************************************************************************)
MaxWrites == 3

\* The stores index_all_workflows can leave: rows written one after the
\* other, the clock never running backwards.
Writes == UNION {analyze_workflow_file(f, data, data) : f \in Files, data \in WellFormed}

RECURSIVE StoresAfter(_)
StoresAfter(n) ==
    IF n = 0 THEN {EmptyDb}
    ELSE StoresAfter(n - 1) \cup
         UNION {{InsertOrReplace(d, w, t) :
                    w \in Writes,
                    t \in {u \in 0..MaxTime : \A row \in d.rows : row.analyzed_at <= u}} :
                d \in StoresAfter(n - 1)}

IndexedStores == StoresAfter(MaxWrites)

InScanOrder(s) ==
    \A i, j \in 1..Len(s) :
        (i < j /\ s[i][1].analyzed_at = s[j][1].analyzed_at) => s[i][1].id < s[j][1].id

\* The rows of the page statement before LIMIT and OFFSET.
PageOrder(d, params) ==
    CHOOSE s \in Ordered(d, params) : ~HasText(params.query) => InScanOrder(s)

PageParams ==
    [query : Queries, trigger_filter : TriggerFilters,
     complexity_filter : ComplexityFilters, active_only : BOOLEAN,
     per_page : 1..MaxLimit]

\* The arguments of db.search_workflows for a page of the search.
PageCall(params, page) ==
    [query |-> params.query, trigger_filter |-> params.trigger_filter,
     complexity_filter |-> params.complexity_filter, active_only |-> params.active_only,
     limit |-> params.per_page, offset |-> PageOffset(page, params.per_page)]

NoPages == [pc |-> "idle", calls |-> 0, pages |-> 0, got |-> <<>>]

\* GET /api/workflows?page=...: the first page, then the pages up to the
\* page count of the first response.
GetWorkflows ==
    /\ search.pc \in {"idle", "paging"}
    /\ LET page == Len(search.got) + 1
           call == PageCall(given, page)
           total == CountQuery(db, call)
           rows == Slice(PageOrder(db, call), call.limit, call.offset)
       IN  /\ page = 1 \/ page <= search.pages
           /\ search' = [pc |-> "paging", calls |-> search.calls + 1,
                         pages |-> IF page = 1 THEN PageCount(total, given.per_page)
                                   ELSE search.pages,
                         got |-> Append(search.got, rows)]
    /\ UNCHANGED <<files, now, db, lock, pass, hist, given, verdict>>

InitPages ==
    /\ files = [f \in Files |-> Absent]
    /\ now = 0
    /\ db \in IndexedStores
    /\ lock = {}
    /\ pass = [p \in Slots |-> IdlePass]
    /\ search = NoPages
    /\ hist = [passNo |-> 0, edits |-> 0, base |-> files, prevQuiet |-> FALSE]
    /\ given \in PageParams
    /\ verdict = [done |-> FALSE]

NextPages == GetWorkflows

\* One search read page by page over a store that does not change
SpecPages == InitPages /\ [][NextPages]_vars

\* Every page of the search has been read.
AllPagesRead == search.pc = "paging" /\ Len(search.got) >= search.pages

PageCandidates == Candidates(db, PageCall(given, 1))

C30_EveryListedFileCountedOnce ==
    \A p \in Slots :
        pass[p].pc = "done" =>
            /\ pass[p].stats.processed + pass[p].stats.skipped + pass[p].stats.errors
                   = (IF pass[p].dir = "found" THEN Cardinality(Listed(pass[p])) ELSE 0)
            /\ pass[p].stats.processed = Cardinality(pass[p].wrote)
            /\ pass[p].force => pass[p].stats.skipped = 0

\* A pass that was not forced wrote the record of one file and skipped the
\* other.
C30_Witness ==
    \E p \in Slots :
        /\ pass[p].pc = "done"
        /\ ~pass[p].force
        /\ Cardinality(Listed(pass[p])) = 2
        /\ pass[p].stats.processed = 1
        /\ pass[p].stats.skipped = 1

====
